---- MODULE Spec2Model ----
(***************************************************************************)
(* Model of blip's per-monitor control plane:                              *)
(*   - the level plan collector (lpc: Run, ChangePlan, changePlan, Pause)  *)
(*     and the Engine it drives (Prepare, Collect),                        *)
(*     src/monitor/level_collector.go;                                     *)
(*   - the level plan adjuster (adjuster.CheckState),                      *)
(*     src/monitor/level_adjuster.go;                                      *)
(*   - the monitor loader (Loader.Load, Loader.Changes),                   *)
(*     src/monitor/loader.go.                                              *)
(* Each component has its own specification (Spec for the LPC and Engine,  *)
(* SpecLPA, SpecLoader); the variables of the other components stay at     *)
(* their initial values.                                                   *)
(***************************************************************************)
EXTENDS Integers, Sequences, FiniteSets, Bags, TLC

VARIABLES
    \* ---- lpc (struct lpc, level_collector.go:48-73)
    state,                 \* c.state
    plan,                  \* c.plan, by plan id (0: the zero blip.Plan)
    levels,                \* c.levels: sorted levels, a sequence of [freq, name]
    paused,                \* c.paused
    changing,              \* c.changing
    stopped,               \* c.stopped
    changePlanCancelFunc,  \* c.changePlanCancelFunc: the swap whose ctx it cancels (0: nil)
    changePlanDoneChan,    \* c.changePlanDoneChan: channel id (0: nil)
    lastCollectError,      \* c.lastCollectError, by its event ("nil": no error)
    \* ---- lpc.Run locals and its goroutines
    run,                   \* Run's position: "ticking" | "returned"
    s,                     \* Run's tick counter
    levelName,             \* Run's levelName variable, shared with the task closures
    sem,                   \* tokens in Run's sem channel
    tasks,                 \* collection goroutines launched by Run (a bag)
    lastTick,              \* history: what the last processed tick decided
    \* ---- ChangePlan callers and changePlan goroutines
    caller,                \* the goroutine inside ChangePlan (holder of changeMux);
                           \* refused (history): a call returned at "if c.stopped"
    nCalls,                \* number of changePlan goroutines started so far
    swaps,                 \* changePlan goroutines, by number
    ctxCanceled,           \* swaps whose ctx has been canceled
    closedChans,           \* done channels that have been closed
    crashed,               \* the process died of an unrecovered panic
    \* ---- Engine (struct Engine, level_collector.go:579-592)
    atLevel,               \* m.atLevel, by the plan it was built from (0: empty map)
    enginePlan,            \* m.plan, by plan id
    ready,                 \* m.ready
    readers,               \* read locks held on the Engine's RWMutex
    writer,                \* swap holding the Engine's write lock (0: none)
    \* ---- environment of the LPC
    stopSignaled,          \* stopChan of Run is closed
    \* ---- adjuster (struct adjuster, level_adjuster.go:43-56)
    lpaStates,             \* a.states: state -> [after, plan]
    prev, curr, pending,   \* a.prev, a.curr, a.pending: [state, plan, ts]
    first,                 \* a.first
    now,                   \* the clock read by Now()
    lpaLast,               \* history: the last CheckState (observation, call, event)
    scen,                  \* history: progress of the dwell scenario
    \* ---- Loader (struct Loader, loader.go:56-70)
    dbmon,                 \* ml.dbmon: monitor id -> [hash, started], with the
                           \* history of the Monitor instance: runs, the number of
                           \* "go m.monitor.Run()"; refused, the StartMonitor
                           \* callback has returned false for it
    stopLossPercent,       \* ml.stopLossPercent, in percent
    stopLossNumber,        \* ml.stopLossNumber
    loadLast,              \* history: the last Load call
    \* ---- a plan handed to sortedLevels (blip.Plan, used at level_collector.go:521-562)
    planLevels,            \* plan.Levels: level name -> [freq, collect: domain -> metric list]
    slLast,                \* history: the last sortedLevels call
    \* ---- Engine with its collectors, and lpc.collect with its sinks
    mcList,                \* m.mcList: the domains whose collector has been made
    mcQuery,               \* the collectors' prepared queries: domain -> (level name -> plan)
    prepLast,              \* history: the last Engine.Prepare call
    ctask,                 \* a c.collect call: position, record, sends made
    sinkErrors,            \* c.sinkErrors: sink name -> recorded error
    \* ---- heartbeat Writer.Write (writer.go:66-148)
    hbPc,                  \* where Write is
    hbStop,                \* stopChan is closed
    hbDone,                \* how many times doneChan has been closed
    hbLog,                 \* history: the writes made
    \* ---- plan Loader (plan_loader.go)
    plugin,                \* pl.plugin is set
    sharedPlans,           \* pl.sharedPlans
    monitorPlans,          \* pl.monitorPlans: monitor id -> plans
    sharedLoaded,          \* LoadShared has returned nil
    plOut,                 \* the process or the Loader's lock is gone
    planLast,              \* history: the last call of Plan and its result
    \* ---- Engine.Collect calls and the Engine's semaphore (level_collector.go:715-775)
    engineSem,             \* tokens in m.sem
    collects,              \* the Engine.Collect calls of the LPC's collection tasks
    prepLock               \* Engine.Prepare at m.Lock()

lpcVars == <<state, plan, levels, paused, changing, stopped, changePlanCancelFunc,
             changePlanDoneChan, lastCollectError, run, s, levelName, sem, tasks,
             lastTick, caller, nCalls, swaps, ctxCanceled, closedChans, crashed,
             atLevel, enginePlan, ready, readers, writer, stopSignaled>>
lpaVars == <<lpaStates, prev, curr, pending, first, now, lpaLast, scen>>
loaderVars == <<dbmon, stopLossPercent, stopLossNumber, loadLast>>
levelVars == <<planLevels, slLast>>
engineVars == <<mcList, mcQuery, prepLast, ctask, sinkErrors>>
writerVars == <<hbPc, hbStop, hbDone, hbLog>>
planVars == <<plugin, sharedPlans, monitorPlans, sharedLoaded, plOut, planLast>>
semVars == <<engineSem, collects, prepLock>>
vars == <<lpcVars, lpaVars, loaderVars, levelVars, engineVars, writerVars, planVars,
          semVars>>
nonLPC == <<lpaVars, loaderVars, levelVars, engineVars, writerVars, planVars, semVars>>
nonLPA == <<lpcVars, loaderVars, levelVars, engineVars, writerVars, planVars, semVars>>
nonLoader == <<lpcVars, lpaVars, levelVars, engineVars, writerVars, planVars, semVars>>
nonLevels == <<lpcVars, lpaVars, loaderVars, engineVars, writerVars, planVars, semVars>>
nonEngine == <<lpaVars, loaderVars, levelVars, writerVars, planVars, semVars>>
nonWriter == <<lpcVars, lpaVars, loaderVars, levelVars, engineVars, planVars, semVars>>
nonPlans == <<lpcVars, lpaVars, loaderVars, levelVars, engineVars, writerVars, semVars>>
nonSem == <<lpcVars, lpaVars, loaderVars, levelVars, engineVars, writerVars, planVars>>

----------------------------------------------------------------------------
\* Bounds of the model

\* Run's ticks are explored up to this value of s.
MaxS == 2
\* Number of ChangePlan calls that start a changePlan goroutine.
MaxChanges == 2
\* Number of collection goroutines of Run alive at a time (running or in their
\* panic handler).
NumTasks == 3

\* const maxCollectors (level_collector.go:110)
maxCollectors == 2

----------------------------------------------------------------------------
\* Plans held by the plan loader: plan id -> set of levels [name, freq]
\* (freq in whole seconds, as time.ParseDuration(l.Freq).Seconds() gives).

PlanIds == {1, 2}

PlanLevels(p) ==
    IF p = 1 THEN {[name |-> "a", freq |-> 1], [name |-> "b", freq |-> 2]}
    ELSE IF p = 2 THEN {[name |-> "a", freq |-> 2], [name |-> "c", freq |-> 3]}
    ELSE {}

\* The (state, plan) pairs ChangePlan is called with.
Requests == {[state |-> "active", plan |-> 1], [state |-> "read-only", plan |-> 2]}

\* byFreq.Less: ascending frequency.
Less(a, b) == a.freq < b.freq

IsSortedByFreq(sq) == \A i \in 1..Len(sq), j \in 1..Len(sq) : i < j => ~Less(sq[j], sq[i])

\* sortedLevels(plan): one level per plan level, sorted ascending by freq.  The
\* plan's levels are a map and sort.Sort is not stable, so levels of equal freq
\* may come in any order: the set of possible results.
sortedLevels(p) ==
    LET L == PlanLevels(p)
        n == Cardinality(L)
    IN  {sq \in [1..n -> L] : (\A l \in L : \E i \in 1..n : sq[i] = l) /\ IsSortedByFreq(sq)}

----------------------------------------------------------------------------
\* lpc and Engine: initial state (NewLevelCollector, NewEngine, start of Run)

NoRequest == [state |-> "", plan |-> 0]

\* A collection goroutine at its start: it holds a slot of sem and has not yet
\* read levelName.  selPlan, selLevel: the plan committed in the LPC at the
\* tick that launched it, and the level name selected on that tick (history);
\* level: the level name the goroutine passes to c.collect.
spawnedTask(p, lvl) ==
    [pc |-> "spawned", selPlan |-> p, selLevel |-> lvl, level |-> "",
     obsAtLevel |-> 0, panicked |-> FALSE]

\* A collection goroutine past Engine.Collect, and one in its panic handler.
exitTask(panic) ==
    [pc |-> "exit", selPlan |-> 0, selLevel |-> "", level |-> "",
     obsAtLevel |-> 0, panicked |-> panic]

recoverTask == [exitTask(TRUE) EXCEPT !.pc = "recover"]

\* pauseCalled (history): lpc.Pause has been called, other than as this
\* goroutine's own pause callback, since the goroutine was started.
NoSwap == [pc |-> "none", newState |-> "", newPlan |-> 0, levels |-> <<>>,
           outcome |-> "none", pauseCalled |-> FALSE]

\* A changePlan goroutine that has returned.
DoneSwap == [NoSwap EXCEPT !.pc = "done"]

InitLPC ==
    /\ state = "" /\ plan = 0 /\ levels = <<>>
    /\ paused = TRUE
    /\ changing = FALSE /\ stopped = FALSE
    /\ changePlanCancelFunc = 0 /\ changePlanDoneChan = 0
    /\ lastCollectError = "nil"
    /\ run = "ticking" /\ s = -1 /\ levelName = ""
    /\ sem = maxCollectors
    /\ tasks = EmptyBag
    /\ lastTick = [kind |-> "init", s |-> -1, levels |-> <<>>, level |-> 0]
    /\ caller = [pc |-> "idle", req |-> NoRequest, chan |-> 0, refused |-> FALSE]
    /\ nCalls = 0
    /\ swaps = [k \in 1..MaxChanges |-> NoSwap]
    /\ ctxCanceled = {} /\ closedChans = {} /\ crashed = FALSE
    /\ atLevel = 0 /\ enginePlan = 0 /\ ready = FALSE
    /\ readers = 0 /\ writer = 0
    /\ stopSignaled = FALSE

----------------------------------------------------------------------------
\* lpc.Run: the tick loop

\* The loop "for i := range c.levels { if s%c.levels[i].freq == 0 { level = i } }":
\* indices are 1-based here, 0 stands for level == -1.
RECURSIVE scanLevels(_, _, _, _)
scanLevels(lv, sec, i, level) ==
    IF i > Len(lv) THEN level
    ELSE scanLevels(lv, sec, i + 1, IF sec % lv[i].freq = 0 THEN i ELSE level)

RECURSIVE scanLevelsFirst(_, _, _)
scanLevelsFirst(lv, sec, i) ==
    IF i > Len(lv) THEN 0
    ELSE IF sec % lv[i].freq = 0 THEN i ELSE scanLevelsFirst(lv, sec, i + 1)

\* A loop that stops at the first level that is due.
selectLevelFirstMatch(lv, sec) == scanLevelsFirst(lv, sec, 1)

selectLevel(lv, sec) == scanLevels(lv, sec, 1, 0)

\* A default branch that records nothing.
blockedErrorKept == lastCollectError

\* "default:" of the select on sem: c.setErr(errMsg, event.LPC_BLOCKED).
blockedError == "LPC_BLOCKED"

\* "case <-sem" can be taken.
semAcquirableAlways == TRUE

semAcquirable == sem > 0

\* "if c.paused", read by Run under stateMux at a tick.
tickPausedNever == FALSE

tickPaused == paused

\* Run sees stopChan closed: it takes changeMux to set stopped, cancels the
\* changePlan goroutine if one is running, and returns (closing doneChan).
TickStop ==
    /\ UNCHANGED nonLPC
    /\ ~crashed /\ run = "ticking"
    /\ stopSignaled
    /\ caller.pc = "idle"          \* changeMux is free
    /\ stopped' = TRUE
    /\ ctxCanceled' = IF changing THEN ctxCanceled \cup {changePlanCancelFunc}
                      ELSE ctxCanceled
    /\ run' = "returned"
    /\ UNCHANGED <<state, plan, levels, paused, changing, changePlanCancelFunc,
                   changePlanDoneChan, lastCollectError, s, levelName, sem, tasks,
                   lastTick, caller, nCalls, swaps, closedChans, crashed, atLevel,
                   enginePlan, ready, readers, writer, stopSignaled>>

\* A tick while paused: the counter is reset.
TickPaused ==
    /\ UNCHANGED nonLPC
    /\ ~crashed /\ run = "ticking"
    /\ ~stopSignaled
    /\ tickPaused
    /\ s' = -1
    /\ lastTick' = [kind |-> "paused", s |-> -1, levels |-> <<>>, level |-> 0]
    /\ UNCHANGED <<state, plan, levels, paused, changing, stopped, changePlanCancelFunc,
                   changePlanDoneChan, lastCollectError, run, levelName, sem, tasks,
                   caller, nCalls, swaps, ctxCanceled, closedChans, crashed, atLevel,
                   enginePlan, ready, readers, writer, stopSignaled>>

\* A tick while not paused: select the level, then launch a collection task if
\* a slot is free, else record LPC_BLOCKED.
TickCollect ==
    /\ UNCHANGED nonLPC
    /\ ~crashed /\ run = "ticking"
    /\ ~stopSignaled
    /\ ~tickPaused
    /\ s < MaxS
    /\ LET sec == s + 1
           level == selectLevel(levels, sec)
       IN  /\ s' = sec
           /\ IF level = 0
              THEN /\ lastTick' = [kind |-> "skip", s |-> sec, levels |-> levels,
                                   level |-> 0]
                   /\ UNCHANGED <<levelName, sem, tasks, lastCollectError>>
              ELSE /\ levelName' = levels[level].name
                   /\ lastTick' = [kind |-> "select", s |-> sec, levels |-> levels,
                                   level |-> level]
                   /\ IF semAcquirable
                      THEN /\ BagCardinality(tasks) < NumTasks
                           /\ tasks' = tasks (+) SetToBag({spawnedTask(plan, levels[level].name)})
                           /\ sem' = sem - 1
                           /\ UNCHANGED lastCollectError
                      ELSE /\ lastCollectError' = blockedError
                           /\ UNCHANGED <<sem, tasks>>
    /\ UNCHANGED <<state, plan, levels, paused, changing, stopped, changePlanCancelFunc,
                   changePlanDoneChan, run, caller, nCalls, swaps, ctxCanceled,
                   closedChans, crashed, atLevel, enginePlan, ready, readers, writer,
                   stopSignaled>>

----------------------------------------------------------------------------
\* The collection goroutine launched by Run: c.collect(levelName), Engine.Collect

\* Level names that have collectors in the atLevel map built from plan p.
atLevelNames(p) == {l.name : l \in PlanLevels(p)}

\* RLock can be taken: no writer holds the lock.
rLockFree == writer = 0

\* tasks with goroutine r replaced by r2.
moved(r, r2) == (tasks (-) SetToBag({r})) (+) SetToBag({r2})

\* The values the goroutine can find in Run's levelName: the closure shares
\* the variable with Run, which writes it at every tick without
\* synchronization, so the read gives the name written before the goroutine
\* was launched or the one a later tick has written.
levelNameRead(r) == {r.selLevel, levelName}

\* The goroutine starts: it reads Run's levelName, takes the Engine's read
\* lock and reads m.ready and m.atLevel.
TaskBegin(r) ==
    /\ UNCHANGED nonLPC
    /\ ~crashed
    /\ r.pc = "spawned"
    /\ rLockFree
    /\ \E lvl \in levelNameRead(r) :
          IF ready /\ lvl \in atLevelNames(atLevel)
          THEN /\ tasks' = moved(r, [r EXCEPT !.pc = "collecting",
                                              !.level = lvl,
                                              !.obsAtLevel = atLevel])
               /\ readers' = readers + 1
               /\ UNCHANGED lastCollectError
          ELSE \* Collect returns nil, nil: collect clears the error and returns
               /\ tasks' = moved(r, exitTask(FALSE))
               /\ lastCollectError' = "nil"
               /\ UNCHANGED readers
    /\ UNCHANGED <<state, plan, levels, paused, changing, stopped, changePlanCancelFunc,
                   changePlanDoneChan, run, s, levelName, sem, lastTick, caller, nCalls,
                   swaps, ctxCanceled, closedChans, crashed, atLevel, enginePlan, ready,
                   writer, stopSignaled>>

\* Engine.Collect fans out, builds the record, releases the read lock and
\* returns; collect clears the error, then transforms and sends, either of
\* which may panic.
TaskCollect(r) ==
    /\ UNCHANGED nonLPC
    /\ ~crashed
    /\ r.pc = "collecting"
    /\ \E panic \in BOOLEAN : tasks' = moved(r, exitTask(panic))
    /\ readers' = readers - 1
    /\ lastCollectError' = "nil"
    /\ UNCHANGED <<state, plan, levels, paused, changing, stopped, changePlanCancelFunc,
                   changePlanDoneChan, run, s, levelName, sem, lastTick, caller, nCalls,
                   swaps, ctxCanceled, closedChans, crashed, atLevel, enginePlan, ready,
                   writer, stopSignaled>>

\* A collector's Collect panics.  It runs in a goroutine that Engine.Collect
\* started ("go func(mc blip.Collector)"), whose deferred functions do not
\* recover: the panic ends the process.  The task stays where it is, marked.
TaskCollectorPanic(r) ==
    /\ UNCHANGED nonLPC
    /\ ~crashed
    /\ r.pc = "collecting"
    /\ tasks' = moved(r, [r EXCEPT !.panicked = TRUE])
    /\ crashed' = TRUE
    /\ UNCHANGED <<state, plan, levels, paused, changing, stopped, changePlanCancelFunc,
                   changePlanDoneChan, lastCollectError, run, s, levelName, sem, lastTick,
                   caller, nCalls, swaps, ctxCanceled, closedChans, atLevel, enginePlan,
                   ready, readers, writer, stopSignaled>>

\* The deferred function: "sem <- true", then recover().
TaskExit(r) ==
    /\ UNCHANGED nonLPC
    /\ ~crashed
    /\ r.pc = "exit"
    /\ sem' = sem + 1
    /\ tasks' = IF r.panicked THEN moved(r, recoverTask)
                ELSE tasks (-) SetToBag({r})
    /\ UNCHANGED <<state, plan, levels, paused, changing, stopped, changePlanCancelFunc,
                   changePlanDoneChan, lastCollectError, run, s, levelName, lastTick,
                   caller, nCalls, swaps, ctxCanceled, closedChans, crashed, atLevel,
                   enginePlan, ready, readers, writer, stopSignaled>>

\* recover() returned the panic: setErr(errMsg, LPC_PANIC).
TaskRecover(r) ==
    /\ UNCHANGED nonLPC
    /\ ~crashed
    /\ r.pc = "recover"
    /\ lastCollectError' = "LPC_PANIC"
    /\ tasks' = tasks (-) SetToBag({r})
    /\ UNCHANGED <<state, plan, levels, paused, changing, stopped, changePlanCancelFunc,
                   changePlanDoneChan, run, s, levelName, sem, lastTick, caller, nCalls,
                   swaps, ctxCanceled, closedChans, crashed, atLevel, enginePlan, ready,
                   readers, writer, stopSignaled>>

----------------------------------------------------------------------------
\* lpc.ChangePlan and lpc.Pause

\* ChangePlan's tail: set changing, make the new ctx, cancel func and done
\* channel, and start the changePlan goroutine.
startChangePlan(r) ==
    LET k == nCalls + 1
    IN  /\ changing' = TRUE
        /\ changePlanCancelFunc' = k
        /\ changePlanDoneChan' = k
        /\ nCalls' = k
        /\ swaps' = [swaps EXCEPT ![k] = [NoSwap EXCEPT !.pc = "load",
                                                        !.newState = r.state,
                                                        !.newPlan = r.plan]]

\* "if c.stopped" of ChangePlan, read under changeMux.
stoppedSeenNever == FALSE

stoppedSeen == stopped

\* ChangePlan(newState, newPlanName) is called: it takes changeMux; if the LPC
\* is stopped it returns; if a changePlan goroutine is running it cancels it and
\* waits for its done channel; else it starts the new goroutine at once.
ChangePlan(r) ==
    /\ UNCHANGED nonLPC
    /\ ~crashed
    /\ caller.pc = "idle"
    /\ nCalls < MaxChanges
    /\ IF stoppedSeen
       THEN /\ caller' = [caller EXCEPT !.refused = TRUE]
            /\ UNCHANGED <<changing, changePlanCancelFunc, changePlanDoneChan, nCalls,
                           swaps, ctxCanceled>>
       ELSE IF changing
       THEN /\ ctxCanceled' = ctxCanceled \cup {changePlanCancelFunc}
            /\ caller' = [caller EXCEPT !.pc = "wait", !.req = r,
                                        !.chan = changePlanDoneChan]
            /\ UNCHANGED <<changing, changePlanCancelFunc, changePlanDoneChan,
                           nCalls, swaps>>
       ELSE /\ startChangePlan(r)
            /\ UNCHANGED <<ctxCanceled, caller>>
    /\ UNCHANGED <<state, plan, levels, paused, stopped, lastCollectError, run, s,
                   levelName, sem, tasks, lastTick, closedChans, crashed, atLevel,
                   enginePlan, ready, readers, writer, stopSignaled>>

\* "<-c.changePlanDoneChan" returns: ChangePlan goes on and starts the goroutine.
ChangePlanResume ==
    /\ UNCHANGED nonLPC
    /\ ~crashed
    /\ caller.pc = "wait"
    /\ caller.chan \in closedChans
    /\ startChangePlan(caller.req)
    /\ caller' = [caller EXCEPT !.pc = "idle", !.req = NoRequest, !.chan = 0]
    /\ UNCHANGED <<state, plan, levels, paused, stopped, lastCollectError, run, s,
                   levelName, sem, tasks, lastTick, ctxCanceled, closedChans, crashed,
                   atLevel, enginePlan, ready, readers, writer, stopSignaled>>

\* Positions of a changePlan goroutine that has not yet run its after callback.
beforeAfter == {"load", "loadSleep", "ping", "build", "pause", "commit", "commit2",
                "after"}

\* lpc.Pause, as called by the adjuster.
Pause ==
    /\ UNCHANGED nonLPC
    /\ ~crashed
    /\ paused' = TRUE
    /\ swaps' = [k \in 1..MaxChanges |->
                    IF swaps[k].pc \in beforeAfter
                    THEN [swaps[k] EXCEPT !.pauseCalled = TRUE]
                    ELSE swaps[k]]
    /\ UNCHANGED <<state, plan, levels, changing, stopped, changePlanCancelFunc,
                   changePlanDoneChan, lastCollectError, run, s, levelName, sem, tasks,
                   lastTick, caller, nCalls, ctxCanceled, closedChans, crashed,
                   atLevel, enginePlan, ready, readers, writer, stopSignaled>>

----------------------------------------------------------------------------
\* lpc.changePlan (the swap goroutine) and Engine.Prepare

\* ctx.Done() of the Prepare attempt's ctxPrep: the swap's ctx was canceled or
\* the attempt's 10s timeout has expired.
ctxPrepDone(k, expired) == k \in ctxCanceled \/ expired

\* What Engine.Prepare returns when it finds its context done ("return nil").
prepareDoneResult == "nil"

\* Engine.Prepare's order of its callbacks around the commit: it calls the
\* pause callback, then commits under the write lock, then calls the commit
\* callback.  (The Prepare under src/ takes no callbacks.)
afterBuilt == "pause"

afterPause == "commit"

afterCommit == "after"

\* The plan loader returns the plan; changePlan computes the sorted levels and
\* goes on to Engine.Prepare.
SwapLoad(k) ==
    /\ UNCHANGED nonLPC
    /\ ~crashed
    /\ swaps[k].pc = "load"
    /\ \E lv \in sortedLevels(swaps[k].newPlan) :
          swaps' = [swaps EXCEPT ![k].pc = "ping", ![k].levels = lv]
    /\ UNCHANGED <<state, plan, levels, paused, changing, stopped, changePlanCancelFunc,
                   changePlanDoneChan, lastCollectError, run, s, levelName, sem, tasks,
                   lastTick, caller, nCalls, ctxCanceled, closedChans, crashed, atLevel,
                   enginePlan, ready, readers, writer, stopSignaled>>

\* The plan loader returns an error: CHANGE_PLAN_ERROR, then time.Sleep(2s).
SwapLoadError(k) ==
    /\ UNCHANGED nonLPC
    /\ ~crashed
    /\ swaps[k].pc = "load"
    /\ swaps' = [swaps EXCEPT ![k].pc = "loadSleep"]
    /\ UNCHANGED <<state, plan, levels, paused, changing, stopped, changePlanCancelFunc,
                   changePlanDoneChan, lastCollectError, run, s, levelName, sem, tasks,
                   lastTick, caller, nCalls, ctxCanceled, closedChans, crashed, atLevel,
                   enginePlan, ready, readers, writer, stopSignaled>>

\* The sleep is over: the loop calls the plan loader again.
SwapLoadRetry(k) ==
    /\ UNCHANGED nonLPC
    /\ ~crashed
    /\ swaps[k].pc = "loadSleep"
    /\ swaps' = [swaps EXCEPT ![k].pc = "load"]
    /\ UNCHANGED <<state, plan, levels, paused, changing, stopped, changePlanCancelFunc,
                   changePlanDoneChan, lastCollectError, run, s, levelName, sem, tasks,
                   lastTick, caller, nCalls, ctxCanceled, closedChans, crashed, atLevel,
                   enginePlan, ready, readers, writer, stopSignaled>>

\* How changePlan goes on after Engine.Prepare returned res ("nil" or "err").
afterPrepare(k, res, committed) ==
    IF res = "nil"
    THEN \* break; CHANGE_PLAN_SUCCESS
         [swaps[k] EXCEPT !.pc = "unwind", !.levels = <<>>, !.pauseCalled = FALSE,
                          !.outcome = IF committed THEN "committed" ELSE "uncommitted"]
    ELSE IF k \in ctxCanceled
    THEN \* changePlan goroutine has been cancelled
         [swaps[k] EXCEPT !.pc = "unwind", !.levels = <<>>, !.pauseCalled = FALSE,
                          !.outcome = "canceled"]
    ELSE \* cancelPrep, CHANGE_PLAN_ERROR, back off, next attempt with a new ctxPrep
         [swaps[k] EXCEPT !.pc = "ping"]

\* Engine.Prepare's connection loop: ping (up: MySQL answers); on failure
\* return if ctx is done (canceled, or expired: the attempt's timeout is over),
\* else sleep 2s and ping again.
PreparePing(k) ==
    /\ UNCHANGED nonLPC
    /\ ~crashed
    /\ swaps[k].pc = "ping"
    /\ \E up \in BOOLEAN, expired \in BOOLEAN :
          IF up /\ ~ctxPrepDone(k, expired)
          THEN swaps' = [swaps EXCEPT ![k].pc = "build"]
          ELSE IF ctxPrepDone(k, expired)
          THEN swaps' = [swaps EXCEPT ![k] = afterPrepare(k, prepareDoneResult, FALSE)]
          ELSE UNCHANGED swaps
    /\ UNCHANGED <<state, plan, levels, paused, changing, stopped, changePlanCancelFunc,
                   changePlanDoneChan, lastCollectError, run, s, levelName, sem, tasks,
                   lastTick, caller, nCalls, ctxCanceled, closedChans, crashed, atLevel,
                   enginePlan, ready, readers, writer, stopSignaled>>

\* Engine.Prepare makes and prepares the collectors of every level: a collector
\* error is returned; a done ctx makes Prepare return at the check that follows
\* each collector.
PrepareBuild(k) ==
    /\ UNCHANGED nonLPC
    /\ ~crashed
    /\ swaps[k].pc = "build"
    /\ \E err \in BOOLEAN, expired \in BOOLEAN :
          swaps' = [swaps EXCEPT ![k] =
              IF err THEN afterPrepare(k, "err", FALSE)
              ELSE IF ctxPrepDone(k, expired)
              THEN afterPrepare(k, prepareDoneResult, FALSE)
              ELSE [swaps[k] EXCEPT !.pc = afterBuilt]]
    /\ UNCHANGED <<state, plan, levels, paused, changing, stopped, changePlanCancelFunc,
                   changePlanDoneChan, lastCollectError, run, s, levelName, sem, tasks,
                   lastTick, caller, nCalls, ctxCanceled, closedChans, crashed, atLevel,
                   enginePlan, ready, readers, writer, stopSignaled>>

\* Prepare calls the pause callback, c.Pause.
PreparePause(k) ==
    /\ UNCHANGED nonLPC
    /\ ~crashed
    /\ swaps[k].pc = "pause"
    /\ paused' = TRUE
    /\ swaps' = [swaps EXCEPT ![k].pc = afterPause]
    /\ UNCHANGED <<state, plan, levels, changing, stopped, changePlanCancelFunc,
                   changePlanDoneChan, lastCollectError, run, s, levelName, sem, tasks,
                   lastTick, caller, nCalls, ctxCanceled, closedChans, crashed, atLevel,
                   enginePlan, ready, readers, writer, stopSignaled>>

\* m.Lock() can be taken: no reader and no writer holds the lock.
lockFreeIgnoringReaders == writer = 0

lockFree == writer = 0 /\ readers = 0

\* Prepare's commit, first half: m.Lock(); m.atLevel = atLevel.
EngineCommit(k) ==
    /\ UNCHANGED nonLPC
    /\ ~crashed
    /\ swaps[k].pc = "commit"
    /\ lockFree
    /\ writer' = k
    /\ atLevel' = swaps[k].newPlan
    /\ swaps' = [swaps EXCEPT ![k].pc = "commit2"]
    /\ UNCHANGED <<state, plan, levels, paused, changing, stopped, changePlanCancelFunc,
                   changePlanDoneChan, lastCollectError, run, s, levelName, sem, tasks,
                   lastTick, caller, nCalls, ctxCanceled, closedChans, crashed,
                   enginePlan, ready, readers, stopSignaled>>

\* Prepare's commit, second half: m.plan = plan; m.ready = true; m.Unlock().
EngineCommit2(k) ==
    /\ UNCHANGED nonLPC
    /\ ~crashed
    /\ swaps[k].pc = "commit2"
    /\ enginePlan' = swaps[k].newPlan
    /\ ready' = TRUE
    /\ writer' = 0
    /\ swaps' = [swaps EXCEPT ![k].pc = afterCommit]
    /\ UNCHANGED <<state, plan, levels, paused, changing, stopped, changePlanCancelFunc,
                   changePlanDoneChan, lastCollectError, run, s, levelName, sem, tasks,
                   lastTick, caller, nCalls, ctxCanceled, closedChans, crashed, atLevel,
                   readers, stopSignaled>>

\* The value the commit callback stores in c.paused.
pausedAfterCommit == FALSE

\* Prepare calls the commit callback, changePlan's after: the LPC publishes
\* (state, plan, levels) and resumes.  Prepare then returns nil.
After(k) ==
    /\ UNCHANGED nonLPC
    /\ ~crashed
    /\ swaps[k].pc = "after"
    /\ state' = swaps[k].newState
    /\ plan' = swaps[k].newPlan
    /\ levels' = swaps[k].levels
    /\ paused' = pausedAfterCommit
    /\ swaps' = [swaps EXCEPT ![k] = afterPrepare(k, "nil", TRUE)]
    /\ UNCHANGED <<changing, stopped, changePlanCancelFunc, changePlanDoneChan,
                   lastCollectError, run, s, levelName, sem, tasks, lastTick, caller,
                   nCalls, ctxCanceled, closedChans, crashed, atLevel, enginePlan, ready,
                   readers, writer, stopSignaled>>

\* changePlan's deferred function, first half: c.changing = false.
SwapUnwind(k) ==
    /\ UNCHANGED nonLPC
    /\ ~crashed
    /\ swaps[k].pc = "unwind"
    /\ changing' = FALSE
    /\ swaps' = [swaps EXCEPT ![k] = [NoSwap EXCEPT !.pc = "close"]]
    /\ UNCHANGED <<state, plan, levels, paused, stopped, changePlanCancelFunc,
                   changePlanDoneChan, lastCollectError, run, s, levelName, sem, tasks,
                   lastTick, caller, nCalls, ctxCanceled, closedChans, crashed, atLevel,
                   enginePlan, ready, readers, writer, stopSignaled>>

\* changePlan's deferred function, second half: close(c.changePlanDoneChan),
\* the channel the field holds now; closing a closed channel panics.
SwapClose(k) ==
    /\ UNCHANGED nonLPC
    /\ ~crashed
    /\ swaps[k].pc = "close"
    /\ IF changePlanDoneChan \in closedChans
       THEN crashed' = TRUE /\ UNCHANGED closedChans
       ELSE closedChans' = closedChans \cup {changePlanDoneChan} /\ UNCHANGED crashed
    /\ swaps' = [swaps EXCEPT ![k] = DoneSwap]
    /\ ctxCanceled' = ctxCanceled \ {k}    \* the goroutine is gone, and its ctx with it
    /\ UNCHANGED <<state, plan, levels, paused, changing, stopped, changePlanCancelFunc,
                   changePlanDoneChan, lastCollectError, run, s, levelName, sem, tasks,
                   lastTick, caller, nCalls, atLevel, enginePlan, ready, readers, writer,
                   stopSignaled>>

\* Monitor.Stop closes Run's stopChan.
Stop ==
    /\ UNCHANGED nonLPC
    /\ ~crashed /\ ~stopSignaled
    /\ stopSignaled' = TRUE
    /\ UNCHANGED <<state, plan, levels, paused, changing, stopped, changePlanCancelFunc,
                   changePlanDoneChan, lastCollectError, run, s, levelName, sem, tasks,
                   lastTick, caller, nCalls, swaps, ctxCanceled, closedChans, crashed,
                   atLevel, enginePlan, ready, readers, writer>>

----------------------------------------------------------------------------
\* adjuster: NewLevelAdjuster and CheckState

States == {"offline", "standby", "read-only", "active"}

\* blip.STATE_NONE
STATE_NONE == ""

LPAConfigs ==
    { [st \in States |->
          IF st = "read-only" THEN [after |-> 2, plan |-> "ro-plan"]
          ELSE IF st = "active" THEN [after |-> 1, plan |-> "active-plan"]
          ELSE [after |-> 1, plan |-> ""]],
      [st \in States |->
          IF st = "read-only" THEN [after |-> 1, plan |-> "ro-plan"]
          ELSE IF st = "active" THEN [after |-> 0, plan |-> "active-plan"]
          ELSE IF st = "standby" THEN [after |-> 3, plan |-> "standby-plan"]
          ELSE [after |-> 2, plan |-> ""]] }

\* The clock is explored up to this time (seconds).
MaxTime == 6
\* Longest time between two CheckState calls (the 1s sleep plus delays).
MaxStep == 2

zeroState == [state |-> "", plan |-> "", ts |-> 0]

noCall == [kind |-> "none", state |-> "", plan |-> ""]

InitLPA ==
    /\ lpaStates \in LPAConfigs
    /\ prev = zeroState
    /\ curr = [zeroState EXCEPT !.state = "offline"]
    /\ pending = zeroState
    /\ first = TRUE
    /\ now = 1
    /\ lpaLast = [obsv |-> "", at |-> 0, call |-> noCall, event |-> "none",
                  boot |-> FALSE, preCurr |-> zeroState, prePending |-> zeroState,
                  runStart |-> 0]
    /\ scen = [stage |-> 0, calls |-> <<>>]

\* A changePlan that calls ChangePlan whatever the plan name.
changePlanAlways(st, planName) ==
    [kind |-> "ChangePlan", state |-> st, plan |-> planName]

\* adjuster.changePlan: an empty plan name pauses the LPC.
changePlan(st, planName) ==
    IF planName = "" THEN [kind |-> "Pause", state |-> "", plan |-> ""]
    ELSE [kind |-> "ChangePlan", state |-> st, plan |-> planName]

\* "now.Sub(a.pending.ts) < a.states[a.pending.state].after": still dwelling.
dwellingNever(t) == FALSE

dwelling(t) == t - pending.ts < lpaStates[pending.state].after

\* An adjuster without the bootstrap branch.
bootstrapNever == FALSE

\* "a.first && a.curr.state == blip.STATE_OFFLINE": the adjuster has not left
\* its initial state yet.
bootstrap == first /\ curr.state = "offline"

\* The timestamp a new pending state gets.
newPendingTsKept(t) == IF pending.ts # 0 THEN pending.ts ELSE t

newPendingTs(t) == t

\* What CheckState clears of pending when the current state is observed again.
abortedPendingKept == pending

abortedPending == [pending EXCEPT !.ts = 0, !.state = STATE_NONE]

\* A commit of the pending state that clears only pending's timestamp.
committedPendingTsOnly == [pending EXCEPT !.ts = 0]

\* What CheckState leaves in pending after it has made the pending state the
\* current one.
committedPending == [pending EXCEPT !.ts = 0, !.state = STATE_NONE]

\* History of the dwell scenario: with after(read-only) = 2s and CheckState run
\* 1s apart, stage 1: active observed while current is active and nothing is
\* pending; stages 2, 3, 4: read-only observed.  calls: the calls made at
\* stages 2 to 4.
scenNext(obsv, call, currAfter, pendingAfter) ==
    LET onTime == lpaLast.at # 0 /\ now - lpaLast.at = 1
        noted(c) == IF call.kind = "none" THEN c
                    ELSE Append(c, [stage |-> scen.stage + 1, call |-> call])
    IN  IF lpaStates["read-only"].after # 2 THEN scen
        ELSE IF scen.stage \in 1..3 /\ obsv = "read-only" /\ onTime
        THEN [stage |-> scen.stage + 1, calls |-> noted(scen.calls)]
        ELSE IF obsv = "active" /\ currAfter.state = "active" /\ pendingAfter.ts = 0
        THEN [stage |-> 1, calls |-> <<>>]
        ELSE [stage |-> 0, calls |-> <<>>]

\* One CheckState: now is what Now() returns, obsv what a.state() returns; the
\* next CheckState follows d seconds later.
CheckState(obsv, d) ==
    /\ UNCHANGED nonLPA
    /\ now <= MaxTime
    /\ now' = now + d
    /\ UNCHANGED lpaStates
    /\ LET hist(call, ev, boot) ==
               [obsv |-> obsv, at |-> now, call |-> call, event |-> ev,
                boot |-> boot, preCurr |-> curr, prePending |-> pending,
                runStart |-> IF lpaLast.obsv = obsv THEN lpaLast.runStart ELSE now]
       IN
       IF obsv = curr.state
       THEN /\ IF pending.ts # 0
               THEN /\ pending' = abortedPending
                    /\ lpaLast' = hist(noCall, "STATE_CHANGE_ABORT", FALSE)
               ELSE /\ UNCHANGED pending
                    /\ lpaLast' = hist(noCall, "none", FALSE)
            /\ scen' = scenNext(obsv, noCall, curr, pending')
            /\ UNCHANGED <<prev, curr, first>>
       ELSE IF obsv = pending.state
       THEN IF dwelling(now)
            THEN /\ lpaLast' = hist(noCall, "none", FALSE)
                 /\ scen' = scenNext(obsv, noCall, curr, pending)
                 /\ UNCHANGED <<prev, curr, pending, first>>
            ELSE LET call == changePlan(pending.state, pending.plan)
                 IN  /\ prev' = curr
                     /\ curr' = pending
                     /\ pending' = committedPending
                     /\ lpaLast' = hist(call, "STATE_CHANGE_END", FALSE)
                     /\ scen' = scenNext(obsv, call, curr', pending')
                     /\ UNCHANGED first
       ELSE IF bootstrap
       THEN LET call == changePlan(obsv, lpaStates[obsv].plan)
            IN  /\ first' = FALSE
                /\ prev' = curr
                /\ curr' = [state |-> obsv, plan |-> "", ts |-> now]
                /\ lpaLast' = hist(call, "STATE_CHANGE_END", TRUE)
                /\ scen' = scenNext(obsv, call, curr', pending)
                /\ UNCHANGED pending
       ELSE /\ pending' = [state |-> obsv, ts |-> newPendingTs(now),
                           plan |-> lpaStates[obsv].plan]
            /\ lpaLast' = hist(noCall, "STATE_CHANGE_BEGIN", FALSE)
            /\ scen' = scenNext(obsv, noCall, curr, pending')
            /\ UNCHANGED <<prev, curr, first>>

----------------------------------------------------------------------------
\* Loader: Load, Changes, StartMonitors, Unload

\* Monitor ids the configuration sources can name.
NumMonitors == 3

MonitorIds == 1..NumMonitors

\* Content hashes of a monitor's final config.
Hashes == {1, 2}

\* The monitor sets a reconcile can yield: monitor id -> config hash.
Configs == UNION {[ids -> Hashes] : ids \in SUBSET MonitorIds}

\* config.monitor-loader.stop-loss is a percentage or a number.
StopLossConfigs == {[percent |-> 0, number |-> 0], [percent |-> 50, number |-> 0],
                    [percent |-> 0, number |-> 1]}

noLoad == [called |-> FALSE, err |-> FALSE, nBefore |-> 0, nConfigured |-> 0,
           unchanged |-> TRUE, stoploss |-> FALSE, asConfigured |-> FALSE,
           newUnstarted |-> TRUE, sameKept |-> TRUE, sameStarted |-> FALSE]

InitLoader ==
    /\ dbmon = <<>>
    /\ \E c \in StopLossConfigs : stopLossPercent = c.percent /\ stopLossNumber = c.number
    /\ loadLast = noLoad

\* A comparison that takes every monitor present before and after as changed.
ChangesIgnoringHash(all) ==
    [Removed |-> {id \in DOMAIN dbmon : id \notin DOMAIN all},
     Changed |-> DOMAIN dbmon \cap DOMAIN all,
     Added   |-> DOMAIN all]

\* Loader.Changes: monitors removed, changed (by config hash) and added.
Changes(all) ==
    [Removed |-> {id \in DOMAIN dbmon : id \notin DOMAIN all},
     Changed |-> {id \in DOMAIN dbmon \cap DOMAIN all : all[id] # dbmon[id].hash},
     Added   |-> {id \in DOMAIN all : id \notin DOMAIN dbmon \/ all[id] # dbmon[id].hash}]

\* "nNow" of the stop-loss check, as Load computes it.
nNowOf(changes, all) == Cardinality(changes.Removed)

\* The stop-loss check of Load: errMsg != "".  stopLossPercent is a fraction in
\* the code (lost > ml.stopLossPercent); here both sides are scaled by 100.
stopLossHit(nBefore, nNow) ==
    /\ nNow < nBefore
    /\ \/ stopLossPercent > 0 /\ (nBefore - nNow) * 100 > stopLossPercent * nBefore
       \/ stopLossNumber > 0 /\ nBefore - nNow > stopLossNumber

\* Load's update of ml.dbmon: removed and changed monitors are stopped and
\* deleted, added ones are inserted not started.
applied(changes, all) ==
    [id \in (DOMAIN dbmon \ (changes.Removed \cup changes.Changed)) \cup changes.Added |->
        IF id \in changes.Added
        THEN [hash |-> all[id], started |-> FALSE, runs |-> 0, refused |-> FALSE]
        ELSE dbmon[id]]

\* Load: all is what the sources yield; err: Changes returns an error.
Load(all, err) ==
    /\ UNCHANGED nonLoader
    /\ UNCHANGED <<stopLossPercent, stopLossNumber>>
    /\ LET changes == Changes(all)
           nBefore == Cardinality(DOMAIN dbmon)
           nNow == nNowOf(changes, all)
           same == {id \in DOMAIN dbmon \cap DOMAIN all : all[id] = dbmon[id].hash}
           \* History of the call: the counts before and configured; whether
           \* ml.dbmon is as before, or as configured; whether the monitors of
           \* changes.Added are loaded not started; whether the monitors present
           \* before and configured with the same hash are in none of the three
           \* sets and loaded as before, and whether one of them was started.
           hist(stop) ==
               [called |-> TRUE, err |-> err, nBefore |-> nBefore,
                nConfigured |-> Cardinality(DOMAIN all),
                unchanged |-> (dbmon' = dbmon), stoploss |-> stop,
                asConfigured |->
                    /\ ~err
                    /\ DOMAIN dbmon' = DOMAIN all
                    /\ \A id \in DOMAIN all : dbmon'[id].hash = all[id],
                newUnstarted |->
                    err \/ \A id \in changes.Added :
                               id \in DOMAIN dbmon' /\ ~dbmon'[id].started,
                sameKept |->
                    err \/ \A id \in same :
                               /\ id \notin changes.Removed \cup changes.Changed
                                                             \cup changes.Added
                               /\ id \in DOMAIN dbmon' /\ dbmon'[id] = dbmon[id],
                sameStarted |-> ~err /\ \E id \in same : dbmon[id].started]
       IN  IF err
           THEN /\ UNCHANGED dbmon
                /\ loadLast' = hist(FALSE)
           ELSE IF stopLossHit(nBefore, nNow)
           THEN \* MONITORS_STOPLOSS; return nil
                /\ UNCHANGED dbmon
                /\ loadLast' = hist(TRUE)
           ELSE /\ dbmon' = applied(changes, all)
                /\ loadLast' = hist(FALSE)

\* A loop that skips no monitor.
skippedNever(m) == FALSE

\* "if ml.dbmon[i].started { continue }".
skipped(m) == m.started

\* StartMonitors: every loaded monitor not yet started is offered to the
\* StartMonitor callback; allowed is the set the callback accepts.
StartMonitors(allowed) ==
    /\ UNCHANGED nonLoader
    /\ dbmon' = [id \in DOMAIN dbmon |->
                    IF skipped(dbmon[id]) THEN dbmon[id]
                    ELSE IF id \notin allowed
                    THEN [dbmon[id] EXCEPT !.refused = TRUE]
                    ELSE [dbmon[id] EXCEPT !.started = TRUE, !.runs = @ + 1]]
    /\ UNCHANGED <<stopLossPercent, stopLossNumber, loadLast>>

\* Unload(monitorId): stop and delete a loaded monitor.
Unload(id) ==
    /\ UNCHANGED nonLoader
    /\ id \in DOMAIN dbmon
    /\ dbmon' = [i \in DOMAIN dbmon \ {id} |-> dbmon[i]]
    /\ UNCHANGED <<stopLossPercent, stopLossNumber, loadLast>>

----------------------------------------------------------------------------
\* sortedLevels on a plan with domains and metrics

LevelNames == {"fast", "mid", "slow"}

\* int(d.Seconds()) of the levels' Freq.
Freqs == {1, 2, 5}

DomainNames == {"A", "B"}

\* Metric lists a plan configures for a domain.
MetricLists == {<<"x">>, <<"y">>}

\* sortedLevels is applied to a plan up to this many times.
MaxApply == 2

\* The Collect maps a level can have: domain -> metric list.
CollectMaps == UNION {[ds -> MetricLists] : ds \in SUBSET DomainNames}

\* The plans: level name -> [freq, collect].
PlanValues ==
    UNION {[ns -> [freq : Freqs, collect : CollectMaps]] : ns \in SUBSET LevelNames}

noSorted == [n |-> 0, levels |-> <<>>, prevLevels |-> <<>>, before |-> <<>>]

InitLevels ==
    /\ planLevels \in PlanValues
    /\ slLast = noSorted

LevelsQuiet ==
    /\ planLevels = <<>>
    /\ slLast = noSorted

\* "make a sorted level for each plan level" and sort.Sort(byFreq(levels)): the
\* results the sort can give for the plan levels pl (map order and the order
\* of levels of equal freq are not fixed).
sortedByFreq(pl) ==
    LET n == Cardinality(DOMAIN pl)
        lv(name) == [name |-> name, freq |-> pl[name].freq]
    IN  {sq \in [1..n -> {lv(name) : name \in DOMAIN pl}] :
            /\ \A name \in DOMAIN pl : \E i \in 1..n : sq[i].name = name
            /\ IsSortedByFreq(sq)}

\* A merge that leaves the leaf level as it is.
mergedNothing(root, leaf) == leaf

\* The loop "for domain := range root.Collect": a domain the leaf does not
\* have is copied, the metrics of one it has are appended to the leaf's.
merged(root, leaf) ==
    [d \in DOMAIN leaf \cup DOMAIN root |->
        IF d \notin DOMAIN root THEN leaf[d]
        ELSE IF d \notin DOMAIN leaf THEN root[d]
        ELSE leaf[d] \o root[d]]

\* The loop over j: level lv[i], as it is by now, is merged into every level
\* after it.  The Collect maps of the plan are changed in place.
RECURSIVE inheritFrom(_, _, _, _)
inheritFrom(pl, lv, i, j) ==
    IF j > Len(lv) THEN pl
    ELSE inheritFrom([pl EXCEPT ![lv[j].name].collect =
                                    merged(pl[lv[i].name].collect, @)],
                     lv, i, j + 1)

\* The loop over i.
RECURSIVE inherit(_, _, _)
inherit(pl, lv, i) ==
    IF i > Len(lv) THEN pl
    ELSE inherit(inheritFrom(pl, lv, i, i + 1), lv, i + 1)

\* sortedLevels(plan): returns the sorted levels lv and leaves the merged
\* domains in the plan's own maps.
SortedLevels ==
    /\ UNCHANGED nonLevels
    /\ slLast.n < MaxApply
    /\ \E lv \in sortedByFreq(planLevels) :
          /\ planLevels' = inherit(planLevels, lv, 1)
          /\ slLast' = [n |-> slLast.n + 1, levels |-> lv,
                        prevLevels |-> slLast.levels, before |-> planLevels]

----------------------------------------------------------------------------
\* Engine.Prepare and Engine.Collect with their collectors; lpc.collect with
\* its sinks

\* Plans handed to Engine.Prepare: plans 1 and 2 as above; plan 3 names a
\* domain no collector is registered for; plan 4 has options the collector of
\* one domain rejects at one level.
EnginePlans == {1, 2, 3, 4}

\* plan.Levels[levelName].Collect: the domains of every level of a plan.
planCollect(p) ==
    IF p = 1 THEN ("a" :> {"size"}) @@ ("b" :> {"size", "status"})
    ELSE IF p = 2 THEN ("a" :> {"size"}) @@ ("c" :> {"size", "status"})
    ELSE IF p = 3 THEN ("a" :> {"size"}) @@ ("c" :> {"size", "unknown"})
    ELSE IF p = 4 THEN ("a" :> {"size"}) @@ ("c" :> {"size"})
    ELSE <<>>

\* metrics.Make: the domains with a registered collector factory.
registered == {"status", "size"}

\* The (domain, level) whose options the collector's Prepare rejects.
rejected(p) == IF p = 4 THEN {<<"size", "c">>} ELSE {}

planDomains(p) == UNION {planCollect(p)[l] : l \in DOMAIN planCollect(p)}

\* The domain at which Prepare(p) fails, if any.
failing(p) == {d \in planDomains(p) : d \notin registered \/ \E l \in DOMAIN planCollect(p) : <<d, l>> \in rejected(p)}

\* The sinks configured for the monitor, in the order of c.sinks.
Sinks == <<"log", "signalfx">>

\* c.collect is called up to this many times.
MaxCollect == 2

idleTask == [pc |-> "idle", n |-> 0, level |-> "", wasReady |-> FALSE,
             hadLevel |-> FALSE, bm |-> <<>>, failed |-> {}, i |-> 0, sends |-> <<>>]

\* before: what a failed call found (the Engine's committed fields, the
\* collectors' queries, the LPC's fields).
noPrepare == [called |-> FALSE, plan |-> 0, err |-> FALSE, before |-> <<>>]

InitEngine ==
    /\ mcList = {}
    /\ mcQuery = <<>>
    /\ prepLast = noPrepare
    /\ ctask = idleTask
    /\ sinkErrors = <<>>

EngineQuiet == InitEngine

\* What a collector's Prepare(plan) leaves in its query map: an entry for
\* every level of the plan that has the domain (Data.Prepare, c.query), for the
\* levels lv it got to.
prepared(d, p, lv) ==
    LET old == IF d \in DOMAIN mcQuery THEN mcQuery[d] ELSE <<>>
    IN  [l \in DOMAIN old \cup lv |-> IF l \in lv THEN p ELSE old[l]]

\* The levels of plan p that have domain d.
levelsWith(d, p) == {l \in DOMAIN planCollect(p) : d \in planCollect(p)[l]}

\* A Prepare that fails keeps the collectors' queries as they were.
preparedQueriesKept(done, partial, p) == mcQuery

\* The collectors' queries after Prepare(p) has prepared the domains done and,
\* for the domain whose Prepare failed, the levels partial.
preparedQueries(done, partial, p) ==
    LET f == failing(p) \cap registered
        touched == done \cup {d \in f : partial # {}}
    IN  [d \in DOMAIN mcQuery \cup touched |->
            IF d \in done THEN prepared(d, p, levelsWith(d, p))
            ELSE IF d \in touched THEN prepared(d, p, partial)
            ELSE mcQuery[d]]

\* The domains Prepare(p) can have prepared when it fails at a domain of
\* failing(p): plan.Levels and level.Collect are maps, ranged over in any
\* order, so these are the domains of some levels without a failing domain
\* and some of the other domains of one level with it.
doneBeforeFailure(p) ==
    LET clean == {l \in DOMAIN planCollect(p) : planCollect(p)[l] \cap failing(p) = {}}
        dirty == DOMAIN planCollect(p) \ clean
    IN  {UNION {planCollect(p)[l] : l \in ls} \cup ds :
            ls \in SUBSET clean,
            ds \in UNION {SUBSET (planCollect(p)[l] \ failing(p)) : l \in dirty}}

\* Engine.Prepare(ctx, plan) with MySQL connected: make and prepare the
\* collectors of every level; on an error return it, else commit atLevel, plan
\* and ready under the write lock.
EnginePrepare(p) ==
    /\ UNCHANGED nonEngine
    /\ LET before == [atLevel |-> atLevel, enginePlan |-> enginePlan, ready |-> ready,
                      mcQuery |-> mcQuery, state |-> state, plan |-> plan,
                      levels |-> levels, paused |-> paused]
       IN  IF failing(p) = {}
           THEN /\ mcList' = mcList \cup planDomains(p)
                /\ mcQuery' = preparedQueries(planDomains(p), {}, p)
                /\ atLevel' = p /\ enginePlan' = p /\ ready' = TRUE
                /\ prepLast' = [called |-> TRUE, plan |-> p, err |-> FALSE,
                                before |-> <<>>]
           ELSE \E done \in doneBeforeFailure(p),
                   partial \in SUBSET {l \in DOMAIN planCollect(p) :
                                          \E d \in failing(p) \cap registered :
                                             d \in planCollect(p)[l] /\ <<d, l>> \notin rejected(p)} :
                /\ mcList' = mcList \cup done \cup (failing(p) \cap registered)
                /\ mcQuery' = preparedQueries(done, partial, p)
                /\ UNCHANGED <<atLevel, enginePlan, ready>>
                /\ prepLast' = [called |-> TRUE, plan |-> p, err |-> TRUE,
                                before |-> before]
    /\ UNCHANGED <<ctask, sinkErrors>>
    /\ UNCHANGED <<state, plan, levels, paused, changing, stopped, changePlanCancelFunc,
                   changePlanDoneChan, lastCollectError, run, s, levelName, sem, tasks,
                   lastTick, caller, nCalls, swaps, ctxCanceled, closedChans, crashed,
                   readers, writer, stopSignaled>>

\* The Values map when the collectors in failed drop out of the record.
valuesWithoutFailed(ds, level, failed) ==
    [d \in ds \ failed |-> IF level \in DOMAIN mcQuery[d] THEN <<mcQuery[d][level]>> ELSE <<>>]

\* bm.Values after wg.Wait(): every collector of the level has stored what its
\* Collect returned under its domain: nil on an error and when it has no query
\* for the level (Data.Collect), else the values of its query for the level
\* (told apart by the plan the query was prepared from).
valuesOf(ds, level, failed) ==
    [d \in ds |-> IF d \in failed \/ level \notin DOMAIN mcQuery[d] THEN <<>>
                  ELSE <<mcQuery[d][level]>>]

\* c.collect(levelName) up to the sinks: Engine.Collect under the read lock
\* (failed: the collectors whose Collect returns an error), setErr(nil, ""),
\* return if there is no record, TransformMetrics.
CollectLevel(level, failed) ==
    /\ UNCHANGED nonEngine
    /\ ctask.pc \in {"idle", "done"}
    /\ ctask.n < MaxCollect
    /\ LET hasLevel == level \in DOMAIN planCollect(atLevel)
           ds == IF hasLevel THEN planCollect(atLevel)[level] ELSE {}
           call == [idleTask EXCEPT !.n = ctask.n + 1, !.level = level,
                                    !.wasReady = ready, !.hadLevel = hasLevel]
       IN  IF ~ready \/ ~hasLevel
           THEN /\ failed = {}
                /\ ctask' = [call EXCEPT !.pc = "done"]
           ELSE /\ failed \subseteq ds
                /\ ctask' = [call EXCEPT
                                 !.pc = "send", !.i = 1, !.failed = failed,
                                 !.bm = [plan |-> enginePlan, level |-> level,
                                         values |-> valuesOf(ds, level, failed)]]
    /\ lastCollectError' = "nil"
    /\ UNCHANGED <<mcList, mcQuery, prepLast, sinkErrors>>
    /\ UNCHANGED <<state, plan, levels, paused, changing, stopped, changePlanCancelFunc,
                   changePlanDoneChan, run, s, levelName, sem, tasks, lastTick, caller,
                   nCalls, swaps, ctxCanceled, closedChans, crashed, atLevel, enginePlan,
                   ready, readers, writer, stopSignaled>>

\* Where the sink loop goes after the send to sink i returned err, if an
\* error ended the loop.
afterSendStopOnError(i, err) == IF err \/ i = Len(Sinks) THEN 0 ELSE i + 1

\* "for i := range c.sinks": the next index, 0 when the loop is over.
afterSend(i, err) == IF i = Len(Sinks) THEN 0 ELSE i + 1

\* fmt.Errorf("[%s] %s", time.Now(), err): an error value that is not nil,
\* whether err is nil or not.
errorf(err) == [isNil |-> FALSE, sendErr |-> err]

\* Status().SinkErrors: the sinks whose entry in c.sinkErrors is not nil.
StatusSinkErrors == {nm \in DOMAIN sinkErrors : ~sinkErrors[nm].isNil}

\* One turn of the sink loop: c.sinks[i].Send(ctx, metrics) returns err, and
\* an error value is stored in c.sinkErrors under the sink's name.
SinkSend(err) ==
    /\ UNCHANGED nonEngine
    /\ ctask.pc = "send"
    /\ LET i == ctask.i
           next == afterSend(i, err)
       IN  /\ ctask' = [ctask EXCEPT
                            !.sends = Append(@, [sink |-> Sinks[i], n |-> ctask.n,
                                                 err |-> err]),
                            !.i = next,
                            !.pc = IF next = 0 THEN "done" ELSE "send"]
           /\ sinkErrors' = [nm \in DOMAIN sinkErrors \cup {Sinks[i]} |->
                                 IF nm = Sinks[i] THEN errorf(err)
                                 ELSE sinkErrors[nm]]
    /\ UNCHANGED <<mcList, mcQuery, prepLast>>
    /\ UNCHANGED lpcVars

----------------------------------------------------------------------------
\* heartbeat: Writer.Write

\* The history counts writes up to this number.
MaxWrites == 3

\* What ExecContext returns: nil, a read-only error, another error.
ExecResults == {"ok", "readonly", "error"}

\* n + 1, not counted beyond MaxWrites.
counted(n) == IF n < MaxWrites THEN n + 1 ELSE n

\* upserts, upsertsOk: first INSERTs executed, and those that succeeded;
\* updates: UPDATEs executed; afterStop: writes executed with stopChan closed;
\* last: the last write executed.
noWrites == [upserts |-> 0, upsertsOk |-> 0, updates |-> 0, afterStop |-> 0,
             last |-> "none"]

InitWriter ==
    /\ hbPc = "insert"
    /\ hbStop = FALSE
    /\ hbDone = 0
    /\ hbLog = noWrites

\* Write has not been called.
WriterQuiet ==
    /\ hbPc = "none"
    /\ hbStop = FALSE
    /\ hbDone = 0
    /\ hbLog = noWrites

\* A first loop that runs the INSERT again after it succeeded.
afterInsertAgain(res) == IF res = "ok" THEN "insert" ELSE "initWait"

\* "if err == nil { break }" of the first loop, else the wait before the
\* stop check.
afterInsert(res) == IF res = "ok" THEN "sleep" ELSE "initWait"

\* "select { case <-stopChan: return nil; default: }".
stopCalled == hbStop

\* The first loop executes the INSERT ... ON DUPLICATE KEY UPDATE.
HBInsert(res) ==
    /\ UNCHANGED nonWriter
    /\ hbPc = "insert"
    /\ hbPc' = afterInsert(res)
    /\ hbLog' = [hbLog EXCEPT !.upserts = counted(@),
                              !.upsertsOk = IF res = "ok" THEN counted(@) ELSE @,
                              !.afterStop = IF hbStop THEN counted(@) ELSE @,
                              !.last = "upsert"]
    /\ UNCHANGED <<hbStop, hbDone>>

\* The first loop after a failed INSERT: time.Sleep(ReadOnlyWait or
\* InitErrorWait), then the stop check; return runs the deferred
\* close(doneChan).
HBInitWait ==
    /\ UNCHANGED nonWriter
    /\ hbPc = "initWait"
    /\ IF stopCalled
       THEN hbPc' = "returned" /\ hbDone' = hbDone + 1
       ELSE hbPc' = "insert" /\ UNCHANGED hbDone
    /\ UNCHANGED <<hbStop, hbLog>>

\* The second loop: time.Sleep(w.freq) is over.
HBSleep ==
    /\ UNCHANGED nonWriter
    /\ hbPc = "sleep"
    /\ hbPc' = "update"
    /\ UNCHANGED <<hbStop, hbDone, hbLog>>

\* The second loop executes the UPDATE; on a read-only error it sleeps
\* ReadOnlyWait before the stop check.
HBUpdate(res) ==
    /\ UNCHANGED nonWriter
    /\ hbPc = "update"
    /\ hbPc' = IF res = "readonly" THEN "readOnlyWait" ELSE "check"
    /\ hbLog' = [hbLog EXCEPT !.updates = counted(@),
                              !.afterStop = IF hbStop THEN counted(@) ELSE @,
                              !.last = "update"]
    /\ UNCHANGED <<hbStop, hbDone>>

\* time.Sleep(ReadOnlyWait) of the second loop is over.
HBReadOnlyWait ==
    /\ UNCHANGED nonWriter
    /\ hbPc = "readOnlyWait"
    /\ hbPc' = "check"
    /\ UNCHANGED <<hbStop, hbDone, hbLog>>

\* The stop check of the second loop.
HBCheck ==
    /\ UNCHANGED nonWriter
    /\ hbPc = "check"
    /\ IF stopCalled
       THEN hbPc' = "returned" /\ hbDone' = hbDone + 1
       ELSE hbPc' = "sleep" /\ UNCHANGED hbDone
    /\ UNCHANGED <<hbStop, hbLog>>

\* The owner of the writer closes stopChan.
HBStop ==
    /\ UNCHANGED nonWriter
    /\ hbPc # "none"
    /\ ~hbStop
    /\ hbStop' = TRUE
    /\ UNCHANGED <<hbPc, hbDone, hbLog>>

----------------------------------------------------------------------------
\* plan: Loader.LoadShared, Loader.LoadMonitor, Loader.Plan

INTERNAL_PLAN_NAME == "blip"

\* blip.Strict.
Strict == FALSE

PlanMonitors == {"m1", "m2"}

\* Plan files of the configuration.
PlanFiles == {"f1", "f2"}

\* config.plans.files and config.monitors.M.plans.files after globbing.
FileLists == {<<>>} \cup {<<f>> : f \in PlanFiles} \cup {<<"f1", "f2">>}

\* What reading config.plans.table gives: no table configured, an error, rows.
TableReads == {"none", "fails", "reads"}

\* The plan of the one row of a plans table.
tablePlan == "t1"

\* A planMeta; plan is the blip.Plan by name, "" the zero Plan.
planMeta(name, source, shared, p) ==
    [name |-> name, source |-> source, shared |-> shared, plan |-> p]

noPlan == [called |-> FALSE, monitor |-> "", name |-> "", err |-> "nil", plan |-> ""]

InitPlans ==
    /\ plugin \in BOOLEAN
    /\ sharedPlans = <<>>
    /\ monitorPlans = [m \in PlanMonitors |-> <<>>]
    /\ sharedLoaded = FALSE
    /\ plOut = FALSE
    /\ planLast = noPlan

\* A Loader without plugin that nothing has been loaded into.
PlansQuiet ==
    /\ plugin = FALSE
    /\ sharedPlans = <<>>
    /\ monitorPlans = [m \in PlanMonitors |-> <<>>]
    /\ sharedLoaded = FALSE
    /\ plOut = FALSE
    /\ planLast = noPlan

fileLoaded(file) == \E i \in DOMAIN sharedPlans : sharedPlans[i].name = file

\* readPlans in non-strict mode: a file loaded as a shared plan is referred
\* to, a file that cannot be read is skipped.
RECURSIVE readPlans(_, _)
readPlans(files, readable) ==
    IF files = <<>> THEN <<>>
    ELSE LET file == Head(files)
             rest == readPlans(Tail(files), readable)
         IN IF fileLoaded(file) THEN <<planMeta(file, "", TRUE, "")>> \o rest
            ELSE IF file \notin readable THEN rest
            ELSE <<planMeta(file, file, FALSE, file)>> \o rest

\* LoadShared, called once when the server boots.
LoadShared(pluginErr, pluginPlans, table, files, readable) ==
    /\ UNCHANGED nonPlans
    /\ ~plOut
    /\ ~sharedLoaded
    /\ IF plugin
       THEN /\ table = "none" /\ files = <<>> /\ readable = {}
            /\ IF pluginErr
               THEN UNCHANGED <<sharedPlans, sharedLoaded>>
               ELSE /\ sharedPlans' = [i \in DOMAIN pluginPlans |->
                           planMeta(pluginPlans[i], "plugin", FALSE, pluginPlans[i])]
                    /\ sharedLoaded' = TRUE
       ELSE /\ pluginPlans = <<>> /\ ~pluginErr
            /\ IF table = "fails"
               THEN UNCHANGED <<sharedPlans, sharedLoaded>>
               ELSE LET fromTable == IF table = "reads"
                                     THEN <<planMeta(tablePlan, "table", FALSE, tablePlan)>>
                                     ELSE <<>>
                        read == fromTable \o readPlans(files, readable)
                    IN /\ sharedPlans' =
                            IF read = <<>> /\ ~Strict
                            THEN <<planMeta(INTERNAL_PLAN_NAME, "blip", FALSE, "internal")>>
                            ELSE read
                       /\ sharedLoaded' = TRUE
    /\ UNCHANGED <<plugin, monitorPlans, plOut, planLast>>

\* LoadMonitor. When the table has been read, RUnlock is called on the lock
\* that LoadMonitor does not hold and Lock is called twice: the process ends
\* with a fatal error, or the Loader's lock is held for ever.
LoadMonitor(m, table, files, readable) ==
    /\ UNCHANGED nonPlans
    /\ ~plOut
    /\ sharedLoaded
    /\ IF table = "fails"
       THEN UNCHANGED <<monitorPlans, plOut>>
       ELSE IF table = "reads"
       THEN plOut' = TRUE /\ UNCHANGED monitorPlans
       ELSE LET read == readPlans(files, readable)
            IN /\ monitorPlans' = [monitorPlans EXCEPT ![m] =
                      IF read = <<>> /\ ~Strict
                      THEN <<planMeta(INTERNAL_PLAN_NAME, "blip", TRUE, "")>>
                      ELSE read]
               /\ UNCHANGED plOut
    /\ UNCHANGED <<plugin, sharedPlans, sharedLoaded, planLast>>

\* The last plan of the list with the name: the loops of Plan do not break.
lastNamed(plans, planName) ==
    LET is == {i \in DOMAIN plans : plans[i].name = planName}
    IN IF is = {} THEN 0 ELSE CHOOSE i \in is : \A j \in is : j <= i

\* Plan: the error and the plan returned.
planOf(m, planName) ==
    LET plans == monitorPlans[m]
        i == IF planName = "" THEN 1 ELSE lastNamed(plans, planName)
    IN IF Len(plans) = 0 THEN [err |-> "no plans loaded", plan |-> ""]
       ELSE IF i = 0 THEN [err |-> "no plan named", plan |-> ""]
       ELSE IF plans[i].shared
       THEN LET k == lastNamed(sharedPlans, plans[i].name)
            IN IF k = 0 THEN [err |-> "shared plan not loaded", plan |-> ""]
               ELSE [err |-> "nil", plan |-> sharedPlans[k].plan]
       ELSE [err |-> "nil", plan |-> plans[i].plan]

Plan(m, planName) ==
    /\ UNCHANGED nonPlans
    /\ ~plOut
    /\ sharedLoaded
    /\ planLast' = [called |-> TRUE, monitor |-> m, name |-> planName,
                    err |-> planOf(m, planName).err, plan |-> planOf(m, planName).plan]
    /\ UNCHANGED <<plugin, sharedPlans, monitorPlans, sharedLoaded, plOut>>

----------------------------------------------------------------------------
\* Engine.Collect: the fan-out to the collectors under the Engine's semaphore

\* semSize of NewEngine, also the capacity of m.sem.
semSize == 2

\* The Engine.Collect calls that can be in progress at a time: one per
\* collection task of the LPC.
CollectCalls == 1..maxCollectors

\* The number of collectors a level can have (0: Collect returns at
\* "if !m.ready" or "if mc == nil").
MaxDomains == 2

\* A call: left, collectors still to be started; inCollect, collector
\* goroutines inside mc.Collect; atSend, collector goroutines at their deferred
\* "m.sem <- true"; i, the counter of the recharge loop.
noCollect == [pc |-> "idle", left |-> 0, inCollect |-> 0, atSend |-> 0, i |-> 0]

InitSem ==
    /\ engineSem = semSize
    /\ collects = [c \in CollectCalls |-> noCollect]
    /\ prepLock = "none"

SemQuiet == InitSem

\* Read locks held on the Engine: one per call in progress.
semReaders == Cardinality({c \in CollectCalls : collects[c].pc # "idle"})

\* m.RLock() can be taken: no Lock() is held or waiting (a waiting Lock
\* blocks new readers of a sync.RWMutex).
semRLockFree == prepLock = "none"

\* A recharge that adds nothing.
rechargedNothing(tokens) == tokens

\* One round of the recharge loop: "case m.sem <- true" if the channel has
\* room.
recharged(tokens) == tokens + 1

\* A send on m.sem that never blocks.
semHasRoomAlways == TRUE

\* "m.sem <- true" can proceed: the channel is not full.
semHasRoom == engineSem < semSize

\* A collection task calls Engine.Collect for a level with n collectors:
\* m.RLock(), then the early returns or the start of the fan-out.
CollectBegin(c, n) ==
    /\ UNCHANGED nonSem
    /\ collects[c].pc = "idle"
    /\ semRLockFree
    /\ collects' = [collects EXCEPT ![c] =
          IF n = 0 THEN [noCollect EXCEPT !.pc = "recharge"]
          ELSE [noCollect EXCEPT !.pc = "fanout", !.left = n]]
    /\ UNCHANGED <<engineSem, prepLock>>

\* The loop over mc: "<-m.sem", wg.Add(1), "go func(mc blip.Collector)".
CollectStart(c) ==
    /\ UNCHANGED nonSem
    /\ collects[c].pc = "fanout"
    /\ collects[c].left > 0
    /\ engineSem > 0
    /\ engineSem' = engineSem - 1
    /\ collects' = [collects EXCEPT ![c].left = @ - 1, ![c].inCollect = @ + 1]
    /\ UNCHANGED prepLock

\* A collector's mc.Collect returns and its values are stored: the goroutine
\* is at its deferred functions.
CollectorReturn(c) ==
    /\ UNCHANGED nonSem
    /\ collects[c].inCollect > 0
    /\ collects' = [collects EXCEPT ![c].inCollect = @ - 1, ![c].atSend = @ + 1]
    /\ UNCHANGED <<engineSem, prepLock>>

\* The collector goroutine's deferred functions: "m.sem <- true", which blocks
\* while the channel is full, then wg.Done().
CollectorRelease(c) ==
    /\ UNCHANGED nonSem
    /\ collects[c].atSend > 0
    /\ semHasRoom
    /\ engineSem' = engineSem + 1
    /\ collects' = [collects EXCEPT ![c].atSend = @ - 1]
    /\ UNCHANGED prepLock

\* wg.Wait() returns when every collector goroutine has called wg.Done();
\* Collect returns and its deferred function starts.
CollectWaited(c) ==
    /\ UNCHANGED nonSem
    /\ collects[c].pc = "fanout"
    /\ collects[c].left = 0 /\ collects[c].inCollect = 0 /\ collects[c].atSend = 0
    /\ collects' = [collects EXCEPT ![c].pc = "recharge"]
    /\ UNCHANGED <<engineSem, prepLock>>

\* One round of RECHARGE_SEMAPHORE; after semSize rounds, or at "default:"
\* when the channel is full, m.RUnlock() and the call is over.
CollectRecharge(c) ==
    /\ UNCHANGED nonSem
    /\ collects[c].pc = "recharge"
    /\ IF collects[c].i < semSize /\ engineSem < semSize
       THEN /\ engineSem' = recharged(engineSem)
            /\ collects' = [collects EXCEPT ![c].i = @ + 1]
       ELSE /\ collects' = [collects EXCEPT ![c] = noCollect]
            /\ UNCHANGED engineSem
    /\ UNCHANGED prepLock

\* Engine.Prepare reaches m.Lock().
PrepareLock ==
    /\ UNCHANGED nonSem
    /\ prepLock = "none"
    /\ prepLock' = "waiting"
    /\ UNCHANGED <<engineSem, collects>>

\* m.Lock() is taken when no read lock is held; Prepare commits and unlocks.
PrepareCommitted ==
    /\ UNCHANGED nonSem
    /\ prepLock = "waiting"
    /\ semReaders = 0
    /\ prepLock' = "none"
    /\ UNCHANGED <<engineSem, collects>>

----------------------------------------------------------------------------
\* Specifications

\* The adjuster and the Loader at rest, for the LPC's specification.
LPAQuiet ==
    /\ lpaStates = CHOOSE c \in LPAConfigs : TRUE
    /\ prev = zeroState
    /\ curr = [zeroState EXCEPT !.state = "offline"]
    /\ pending = zeroState
    /\ first = TRUE
    /\ now = 1
    /\ lpaLast = [obsv |-> "", at |-> 0, call |-> noCall, event |-> "none",
                  boot |-> FALSE, preCurr |-> zeroState, prePending |-> zeroState,
                  runStart |-> 0]
    /\ scen = [stage |-> 0, calls |-> <<>>]

LoaderQuiet ==
    /\ dbmon = <<>>
    /\ stopLossPercent = 0 /\ stopLossNumber = 0
    /\ loadLast = noLoad

Init == InitLPC /\ LPAQuiet /\ LoaderQuiet /\ LevelsQuiet /\ EngineQuiet /\ WriterQuiet /\ PlansQuiet /\ SemQuiet

Next ==
    \/ TickStop
    \/ TickPaused
    \/ TickCollect
    \/ \E r \in BagToSet(tasks) : TaskBegin(r)
    \/ \E r \in BagToSet(tasks) : TaskCollect(r)
    \/ \E r \in BagToSet(tasks) : TaskCollectorPanic(r)
    \/ \E r \in BagToSet(tasks) : TaskExit(r)
    \/ \E r \in BagToSet(tasks) : TaskRecover(r)
    \/ \E r \in Requests : ChangePlan(r)
    \/ ChangePlanResume
    \/ Pause
    \/ \E k \in 1..MaxChanges : SwapLoad(k)
    \/ \E k \in 1..MaxChanges : SwapLoadError(k)
    \/ \E k \in 1..MaxChanges : SwapLoadRetry(k)
    \/ \E k \in 1..MaxChanges : PreparePing(k)
    \/ \E k \in 1..MaxChanges : PrepareBuild(k)
    \/ \E k \in 1..MaxChanges : PreparePause(k)
    \/ \E k \in 1..MaxChanges : EngineCommit(k)
    \/ \E k \in 1..MaxChanges : EngineCommit2(k)
    \/ \E k \in 1..MaxChanges : After(k)
    \/ \E k \in 1..MaxChanges : SwapUnwind(k)
    \/ \E k \in 1..MaxChanges : SwapClose(k)
    \/ Stop

Spec == Init /\ [][Next]_vars

InitA == InitLPA /\ InitLPC /\ LoaderQuiet /\ LevelsQuiet /\ EngineQuiet /\ WriterQuiet /\ PlansQuiet /\ SemQuiet

NextLPA == \E obsv \in States, d \in 1..MaxStep : CheckState(obsv, d)

SpecLPA == InitA /\ [][NextLPA]_vars

InitL == InitLoader /\ InitLPC /\ LPAQuiet /\ LevelsQuiet /\ EngineQuiet /\ WriterQuiet /\ PlansQuiet /\ SemQuiet

NextLoader ==
    \/ \E all \in Configs, err \in BOOLEAN : Load(all, err)
    \/ \E allowed \in SUBSET MonitorIds : StartMonitors(allowed)
    \/ \E id \in MonitorIds : Unload(id)

SpecLoader == InitL /\ [][NextLoader]_vars

InitS == InitLevels /\ InitLPC /\ LPAQuiet /\ LoaderQuiet /\ EngineQuiet /\ WriterQuiet /\ PlansQuiet /\ SemQuiet

NextLevels == SortedLevels

SpecLevels == InitS /\ [][NextLevels]_vars

InitE == InitEngine /\ InitLPC /\ LPAQuiet /\ LoaderQuiet /\ LevelsQuiet /\ WriterQuiet /\ PlansQuiet /\ SemQuiet

NextEngine ==
    \/ \E p \in EnginePlans : EnginePrepare(p)
    \/ \E level \in {"a", "b", "c"}, failed \in SUBSET registered :
          CollectLevel(level, failed)
    \/ \E err \in BOOLEAN : SinkSend(err)

SpecEngine == InitE /\ [][NextEngine]_vars

InitW == InitWriter /\ InitLPC /\ LPAQuiet /\ LoaderQuiet /\ LevelsQuiet /\ EngineQuiet /\ PlansQuiet /\ SemQuiet

NextWriter ==
    \/ \E res \in ExecResults : HBInsert(res)
    \/ HBInitWait
    \/ HBSleep
    \/ \E res \in ExecResults : HBUpdate(res)
    \/ HBReadOnlyWait
    \/ HBCheck
    \/ HBStop

SpecWriter == InitW /\ [][NextWriter]_vars

InitP == InitPlans /\ InitLPC /\ LPAQuiet /\ LoaderQuiet /\ LevelsQuiet /\ EngineQuiet /\ WriterQuiet /\ SemQuiet

NextPlans ==
    \/ \E pluginErr \in BOOLEAN, pluginPlans \in FileLists, table \in TableReads,
          files \in FileLists, readable \in SUBSET PlanFiles :
            LoadShared(pluginErr, pluginPlans, table, files, readable)
    \/ \E m \in PlanMonitors, table \in TableReads,
          files \in FileLists, readable \in SUBSET PlanFiles :
            LoadMonitor(m, table, files, readable)
    \/ \E m \in PlanMonitors, planName \in {"", INTERNAL_PLAN_NAME} \cup PlanFiles :
            Plan(m, planName)

SpecPlans == InitP /\ [][NextPlans]_vars

InitSm == InitSem /\ InitLPC /\ LPAQuiet /\ LoaderQuiet /\ LevelsQuiet /\ EngineQuiet /\ WriterQuiet /\ PlansQuiet

NextSem ==
    \/ \E c \in CollectCalls, n \in 0..MaxDomains : CollectBegin(c, n)
    \/ \E c \in CollectCalls : CollectStart(c)
    \/ \E c \in CollectCalls : CollectorReturn(c)
    \/ \E c \in CollectCalls : CollectorRelease(c)
    \/ \E c \in CollectCalls : CollectWaited(c)
    \/ \E c \in CollectCalls : CollectRecharge(c)
    \/ PrepareLock
    \/ PrepareCommitted

SpecSem == InitSm /\ [][NextSem]_vars

\* Every goroutine that can take a step takes it: the fan-out loop, the
\* collectors (their mc.Collect returns), the deferred functions, and Prepare
\* once the lock is free.  When the LPC calls Collect, and when a plan is
\* prepared, is up to the ticks and to the callers of ChangePlan.
SemFairness ==
    /\ \A c \in CollectCalls :
          /\ WF_vars(CollectStart(c))
          /\ WF_vars(CollectorReturn(c))
          /\ WF_vars(CollectorRelease(c))
          /\ WF_vars(CollectWaited(c))
          /\ WF_vars(CollectRecharge(c))
    /\ WF_vars(PrepareCommitted)

SpecSemLive == InitSm /\ [][NextSem]_vars /\ SemFairness

\* Write's goroutine keeps running: every ExecContext returns (it has a
\* timeout of WriteTimeout) and every sleep ends.
WriterFairness ==
    /\ WF_vars(\E res \in ExecResults : HBInsert(res))
    /\ WF_vars(HBInitWait)
    /\ WF_vars(HBSleep)
    /\ WF_vars(\E res \in ExecResults : HBUpdate(res))
    /\ WF_vars(HBReadOnlyWait)
    /\ WF_vars(HBCheck)

SpecWriterLive == InitW /\ [][NextWriter]_vars /\ WriterFairness

\* The goroutines of the LPC keep running: Run processes the stop it has been
\* signaled once it can take changeMux, a ChangePlan caller goes on when its
\* channel is closed, every changePlan goroutine and every collection goroutine
\* takes its next step.  Whether the plan loader returns the plan or an error
\* is not for the scheduler to decide.
Fairness ==
    /\ WF_vars(TickStop)
    /\ WF_vars(ChangePlanResume)
    /\ WF_vars(\E r \in BagToSet(tasks) :
                   TaskBegin(r) \/ TaskCollect(r) \/ TaskExit(r) \/ TaskRecover(r))
    /\ \A k \in 1..MaxChanges :
          /\ WF_vars(SwapLoad(k) \/ SwapLoadError(k))
          /\ WF_vars(SwapLoadRetry(k))
          /\ WF_vars(PreparePing(k))
          /\ WF_vars(PrepareBuild(k))
          /\ WF_vars(PreparePause(k))
          /\ WF_vars(EngineCommit(k))
          /\ WF_vars(EngineCommit2(k))
          /\ WF_vars(After(k))
          /\ WF_vars(SwapUnwind(k))
          /\ WF_vars(SwapClose(k))

SpecLive == Init /\ [][Next]_vars /\ Fairness

----------------------------------------------------------------------------
\* Properties of lpc.Run

\* Indices of the levels of lv whose freq divides sec.
dueLevels(lv, sec) == {i \in 1..Len(lv) : sec % lv[i].freq = 0}

\* C1: on every tick processed while the LPC is not paused, with s the tick
\* counter: if some sorted level's freq divides s, exactly one level is selected,
\* the one with the greatest index among those whose freq divides s, and its
\* name is what Run hands to the collection; if no freq divides s, nothing is
\* selected on that tick.
TickSelectsGreatestDueLevel ==
    lastTick.kind \in {"skip", "select"} =>
        LET due == dueLevels(lastTick.levels, lastTick.s)
        IN  IF due = {}
            THEN lastTick.kind = "skip" /\ lastTick.level = 0
            ELSE /\ lastTick.kind = "select"
                 /\ lastTick.level \in due
                 /\ \A j \in due : j <= lastTick.level
                 /\ levelName = lastTick.levels[lastTick.level].name

\* A tick at which two levels were due selected the second one.
TickWithTwoDueLevels ==
    /\ lastTick.kind = "select"
    /\ Cardinality(dueLevels(lastTick.levels, lastTick.s)) = 2
    /\ lastTick.level = 2
    /\ lastTick.s = 2

\* Collection goroutines that hold a slot of sem: launched, and not yet past
\* the "sem <- true" of their deferred function.
holdingSlot == BagCardinality(tasks) - CopiesIn(recoverTask, tasks)

\* C2: at every instant at most maxCollectors collection tasks launched by Run
\* are running (launched and not yet past giving their slot back), whatever the
\* ticks, slow or panicking collections, pauses and plan swaps; the slots in sem
\* and the running tasks always add up to maxCollectors.
AtMostMaxCollectorsRunning ==
    /\ holdingSlot <= maxCollectors
    /\ sem + holdingSlot = maxCollectors
    /\ sem >= 0

\* Both slots are taken and a tick found no slot free.
AllCollectorsBusyAtTick ==
    /\ holdingSlot = maxCollectors
    /\ lastCollectError = "LPC_BLOCKED"
    /\ paused

----------------------------------------------------------------------------
\* Properties of ChangePlan, changePlan and Engine.Prepare

\* C3: a changePlan goroutine that ends while it is the latest ChangePlan's,
\* has not been canceled by a later ChangePlan or by Run's stop, has committed
\* its (state, plan) in the LPC: a swap that is not superseded does not give up
\* before Status() can return its state and plan.
UnsupersededSwapEndsCommitted ==
    \A k \in 1..MaxChanges :
        ( /\ swaps[k].pc = "unwind"
          /\ k = nCalls /\ caller.pc = "idle"
          /\ k \notin ctxCanceled
          /\ ~stopped /\ ~stopSignaled ) =>
        swaps[k].outcome = "committed"

\* C4: once a later ChangePlan has canceled a swap that has not committed and
\* waits for it to end, that swap never commits its (state, plan) in the LPC.
SupersededSwapNeverCommits ==
    [][ \A k \in 1..MaxChanges :
          ( /\ caller.pc = "wait" /\ caller.chan = k
            /\ k \in ctxCanceled
            /\ swaps[k].pc \notin {"unwind", "close", "done"} ) =>
          ~(swaps[k].pc = "after" /\ swaps'[k].pc = "unwind") ]_vars

\* C5: every Engine.Collect started by a collection task runs against the
\* atLevel map of the very plan under whose sorted levels the tick selected the
\* level: no collection selected under one plan executes against another
\* plan's collectors.
CollectRunsUnderSelectingPlan ==
    \A r \in BagToSet(tasks) :
        r.pc = "collecting" => r.obsAtLevel = r.selPlan

\* Number of collection goroutines inside Engine.Collect's fan-out.
RECURSIVE copiesOf(_)
copiesOf(rs) ==
    IF rs = {} THEN 0
    ELSE LET r == CHOOSE x \in rs : TRUE
         IN  CopiesIn(r, tasks) + copiesOf(rs \ {r})

collectingCount == copiesOf({r \in BagToSet(tasks) : r.pc = "collecting"})

\* C6: for its whole duration an Engine.Collect sees the Engine's (atLevel,
\* plan, ready) as one commit left them, never a mixture: while a Collect holds
\* the read lock the three fields are those it read and belong to one plan;
\* Prepare's commit happens only under the write lock, never while a Collect
\* holds the read lock, and outside the write lock the three fields agree.
CollectSeesOneCommit ==
    /\ \A r \in BagToSet(tasks) :
          r.pc = "collecting" =>
              r.obsAtLevel = atLevel /\ enginePlan = atLevel /\ ready
    /\ readers = collectingCount
    /\ writer # 0 => readers = 0
    /\ writer = 0 => enginePlan = atLevel /\ (ready <=> atLevel # 0)

\* A Collect holds the read lock while a Prepare with another plan has reached
\* its commit and waits for the write lock.
CommitWaitsForCollect ==
    \E k \in 1..MaxChanges :
        /\ swaps[k].pc = "commit"
        /\ readers > 0
        /\ atLevel # 0
        /\ swaps[k].newPlan # atLevel

----------------------------------------------------------------------------
\* Properties of Loader.Load

\* The loss of the last Load's reconcile exceeds the configured stop-loss.
lossExceedsStopLoss ==
    LET lost == loadLast.nBefore - loadLast.nConfigured
    IN  \/ stopLossPercent > 0 /\ lost * 100 > stopLossPercent * loadLast.nBefore
        \/ stopLossNumber > 0 /\ lost > stopLossNumber

\* C7: if a reconcile would lower the number of loaded monitors and the loss
\* exceeds the configured stop-loss percentage or number, Load leaves the loaded
\* set unchanged, emits MONITORS_STOPLOSS and returns no error.
StopLossKeepsLoadedSet ==
    ( /\ loadLast.called /\ ~loadLast.err
      /\ loadLast.nConfigured < loadLast.nBefore
      /\ lossExceedsStopLoss ) =>
    (loadLast.unchanged /\ loadLast.stoploss)

----------------------------------------------------------------------------
\* Properties of adjuster.CheckState

\* C8: outside bootstrap, CheckState calls ChangePlan or Pause for a state only
\* when that state is observed, is the pending state, and has been pending for
\* at least its dwell time; the pending timestamp is the time of the first
\* observation of the unbroken run of observations of that state.
ChangeOnlyAfterUnbrokenDwell ==
    (lpaLast.call.kind # "none" /\ ~lpaLast.boot) =>
        /\ lpaLast.obsv = lpaLast.prePending.state
        /\ lpaLast.call = changePlan(lpaLast.obsv, lpaStates[lpaLast.obsv].plan)
        /\ lpaLast.at - lpaLast.prePending.ts >= lpaStates[lpaLast.obsv].after
        /\ lpaLast.prePending.ts = lpaLast.runStart
        /\ curr.state = lpaLast.obsv

\* A change to read-only was called after a dwell of 2s that a third state,
\* observed before, had not shortened.
ChangeAfterTwoSecondDwell ==
    /\ lpaLast.call.kind = "ChangePlan" /\ ~lpaLast.boot
    /\ lpaLast.obsv = "read-only"
    /\ lpaStates["read-only"].after = 2
    /\ lpaLast.at - lpaLast.prePending.ts >= 2
    /\ prev.state = "active"

roCall == [kind |-> "ChangePlan", state |-> "read-only", plan |-> "ro-plan"]

\* C9: with after(read-only) = 2s, current state active and CheckState run once
\* per second observing t0 active, t1, t2, t3 read-only: ChangePlan("read-only",
\* ro-plan) is issued at t2, exactly once, and t3 causes no further change.
ChangeIssuedAtSecondObservation ==
    scen.stage >= 3 => scen.calls = <<[stage |-> 3, call |-> roCall]>>

\* C9, as the code has it: in that run nothing is called at t1 and t2 (at t2
\* read-only has been pending for 1s only), and ChangePlan("read-only", ro-plan)
\* is issued at t3, exactly once.
ChangeIssuedAtThirdObservation ==
    /\ scen.stage \in {2, 3} => scen.calls = <<>>
    /\ scen.stage = 4 => scen.calls = <<[stage |-> 4, call |-> roCall]>>

\* The run t0 active, t1, t2, t3 read-only has been observed to its end.
DwellScenarioDone ==
    /\ scen.stage = 4
    /\ curr.state = "read-only" /\ prev.state = "active"

\* C10: if CheckState observes the current state while a change is pending,
\* pending is cleared (its timestamp and state), STATE_CHANGE_ABORT is emitted,
\* curr is unchanged and neither ChangePlan nor Pause is called.
AbortClearsPending ==
    ( /\ lpaLast.at # 0
      /\ lpaLast.obsv = lpaLast.preCurr.state
      /\ lpaLast.prePending.ts # 0 ) =>
    /\ pending.ts = 0 /\ pending.state = STATE_NONE
    /\ lpaLast.event = "STATE_CHANGE_ABORT"
    /\ curr = lpaLast.preCurr
    /\ lpaLast.call = noCall

\* Active was observed again while read-only was pending.
AbortOfPendingReadOnly ==
    /\ lpaLast.event = "STATE_CHANGE_ABORT"
    /\ lpaLast.preCurr.state = "active"
    /\ lpaLast.prePending.state = "read-only"
    /\ lpaLast.obsv = "active"

----------------------------------------------------------------------------
\* Properties of pausing, resuming and stopping the LPC

\* C11: the first tick the LPC processes unpaused after a swap has committed
\* has s = 0: a tick processed under other levels than the tick before it, with
\* no paused tick between the two, does not continue the count.
FirstTickOfNewPlanHasZeroCount ==
    [][ ( /\ s' = s + 1
          /\ lastTick.kind \in {"skip", "select"}
          /\ lastTick.levels # levels ) =>
        s' = 0 ]_vars

\* Collection goroutines that Run has launched and that have not started yet.
launchedTasks(bag) == {r \in BagToSet(bag) : r.pc = "spawned"}

\* C12: the LPC starts paused; while paused is true no step selects a level,
\* launches a collection task or counts a tick (a tick only resets the count);
\* and paused changes from true to false only in the commit callback of a
\* ChangePlan swap, which publishes that swap's state and plan.
PausedMeansNoCollection ==
    /\ paused = TRUE
    /\ [][ /\ paused =>
               /\ \A r \in launchedTasks(tasks') : CopiesIn(r, tasks') <= CopiesIn(r, tasks)
               /\ levelName' = levelName
               /\ s' \in {s, -1}
               /\ lastTick'.kind \in {lastTick.kind, "paused"}
           /\ (paused /\ ~paused') =>
               \E k \in 1..MaxChanges :
                   /\ swaps[k].pc = "after" /\ swaps'[k].pc = "unwind"
                   /\ state' = swaps[k].newState /\ plan' = swaps[k].newPlan ]_vars

\* A tick was processed while the LPC was paused with a plan committed and a
\* count running.
PausedTickUnderCommittedPlan ==
    /\ lastTick.kind = "paused"
    /\ paused /\ s = -1
    /\ plan # 0 /\ levels # <<>>
    /\ BagCardinality(tasks) > 0

\* C13: after Pause() has returned, only a ChangePlan called after it resumes
\* collection: the commit callback of a swap that was already started when
\* Pause was called does not set paused to false.
OnlyLaterChangePlanResumes ==
    [][ \A k \in 1..MaxChanges :
          ( /\ swaps[k].pc = "after" /\ swaps'[k].pc = "unwind"
            /\ paused /\ ~paused' ) =>
          ~swaps[k].pauseCalled ]_vars

\* C14: a canceled swap goroutine terminates whichever step it is in: one that
\* is canceled while it sleeps in the plan-load retry loop does not go on to
\* load the plan again.
CanceledSwapStopsLoading ==
    [][ \A k \in 1..MaxChanges :
          (k \in ctxCanceled /\ swaps[k].pc = "loadSleep") =>
          swaps'[k].pc # "load" ]_vars

\* C15: after stop is signaled Run eventually returns (unless the process has
\* died of a panic before).
StopLeadsToReturn == stopSignaled ~> (run = "returned" \/ crashed)

\* C16: once stopped is set no ChangePlan call starts a swap goroutine or
\* waits for one, and a call that returns without starting a swap does so only
\* when stopped is set, leaving state, plan, levels, paused and changing as
\* they are.
StoppedRefusesChangePlan ==
    [][ /\ stopped => (nCalls' = nCalls /\ caller'.pc = caller.pc)
        /\ (caller'.refused /\ ~caller.refused) =>
               /\ stopped
               /\ UNCHANGED <<state, plan, levels, paused, changing, swaps, nCalls,
                              changePlanCancelFunc, changePlanDoneChan>> ]_vars

\* A ChangePlan call was refused after an earlier one had started a swap.
ChangePlanRefusedAfterStop ==
    /\ caller.refused /\ stopped
    /\ nCalls = 1

----------------------------------------------------------------------------
\* Properties of Loader.Load and Loader.Changes

\* C17: when Load returns without error and it is not the case that the new
\* total is lower than the old with a loss above the configured stop-loss, the
\* change is applied: the loaded monitors are exactly the configured ones, with
\* the configured hashes, and every monitor of Added is loaded not started.
LoadAppliesChangeUnlessStopLoss ==
    ( /\ loadLast.called /\ ~loadLast.err
      /\ ~(loadLast.nConfigured < loadLast.nBefore /\ lossExceedsStopLoss) ) =>
    (loadLast.asConfigured /\ loadLast.newUnstarted)

\* C18: a monitor loaded before a reconcile and configured with the same hash
\* appears in none of Added, Removed and Changed, and Load keeps its entry of
\* the loaded set, started flag included.
UnchangedMonitorIsNoOp ==
    (loadLast.called /\ ~loadLast.err) => loadLast.sameKept

\* A Load that changed the loaded set kept a started monitor whose hash had
\* not changed.
LoadKeptStartedMonitor ==
    /\ loadLast.called /\ ~loadLast.err
    /\ loadLast.sameStarted
    /\ ~loadLast.unchanged /\ ~loadLast.stoploss
    /\ \E id \in DOMAIN dbmon : dbmon[id].started

----------------------------------------------------------------------------
\* Properties of the adjuster's bootstrap and of adjuster.changePlan

\* The call a commit of state st makes: Pause for an empty configured plan
\* name, ChangePlan(st, plan) otherwise.
callFor(st) ==
    IF lpaStates[st].plan = ""
    THEN [kind |-> "Pause", state |-> "", plan |-> ""]
    ELSE [kind |-> "ChangePlan", state |-> st, plan |-> lpaStates[st].plan]

\* C19: a CheckState that observes a state other than offline while first is
\* true and curr.state is offline commits it at once: it makes the call for
\* that state, curr becomes the observed state at the time of the call,
\* nothing becomes pending and first is cleared for good.  Every other
\* CheckState that makes a call or changes curr commits the pending state, and
\* only once its dwell has elapsed.
BootstrapCommitsWithoutDwell ==
    [][ LET obsv == lpaLast'.obsv
            boot == first /\ curr.state = "offline" /\ obsv # "offline"
        IN  /\ ~first => ~first'
            /\ first => (curr.state = "offline" /\ pending.ts = 0)
            /\ boot =>
                  /\ lpaLast'.call = callFor(obsv)
                  /\ lpaLast'.event = "STATE_CHANGE_END"
                  /\ curr'.state = obsv /\ curr'.ts = now
                  /\ prev' = curr
                  /\ pending' = pending
                  /\ first' = FALSE
            /\ (~boot /\ (lpaLast'.call # noCall \/ curr' # curr)) =>
                  /\ pending.ts # 0 /\ pending.state = obsv
                  /\ now - pending.ts >= lpaStates[obsv].after
                  /\ lpaLast'.call = callFor(obsv)
                  /\ curr' = pending
      ]_vars

\* The adjuster has just left its initial state with a ChangePlan call.
BootstrappedWithChangePlan ==
    /\ lpaLast.boot /\ ~first
    /\ lpaLast.preCurr.state = "offline" /\ lpaLast.prePending.ts = 0
    /\ lpaLast.call.kind = "ChangePlan" /\ lpaLast.call.state = lpaLast.obsv
    /\ curr.state = lpaLast.obsv /\ curr.ts = lpaLast.at

\* C20: a CheckState that commits a state (STATE_CHANGE_END) calls Pause, and
\* not ChangePlan, when the state's configured plan name is empty, and
\* ChangePlan(state, plan), and not Pause, when it is not; in both cases curr
\* holds the committed state when CheckState returns.  No other CheckState
\* calls the LPC.
CommitPausesOnEmptyPlan ==
    /\ lpaLast.event = "STATE_CHANGE_END" =>
          /\ lpaStates[lpaLast.obsv].plan = "" =>
                (lpaLast.call.kind = "Pause" /\ lpaLast.call.kind # "ChangePlan")
          /\ lpaStates[lpaLast.obsv].plan # "" =>
                lpaLast.call = [kind |-> "ChangePlan", state |-> lpaLast.obsv,
                                plan |-> lpaStates[lpaLast.obsv].plan]
          /\ curr.state = lpaLast.obsv
    /\ lpaLast.event # "STATE_CHANGE_END" => lpaLast.call.kind = "none"

\* A state with an empty plan name has been committed after its dwell, and a
\* state with a plan had been committed before.
DwellCommitPaused ==
    /\ lpaLast.event = "STATE_CHANGE_END" /\ ~lpaLast.boot
    /\ lpaLast.call.kind = "Pause"
    /\ lpaStates[lpaLast.obsv].plan = ""
    /\ lpaStates[lpaLast.preCurr.state].plan # ""
    /\ curr.state = lpaLast.obsv

----------------------------------------------------------------------------
\* Properties of sortedLevels

\* The Collect map of sorted level i in the plan levels pl.
collectAt(pl, i) == pl[slLast.levels[i].name].collect

\* The metric list the plan had for domain d at sorted level i before the
\* call (empty when the level did not have the domain).
ownMetrics(i, d) ==
    IF d \in DOMAIN collectAt(slLast.before, i) THEN collectAt(slLast.before, i)[d]
    ELSE <<>>

\* The metric lists that domain d has, after the call, at the sorted levels
\* i..j-1, one after another.
RECURSIVE metricsBelow(_, _, _)
metricsBelow(i, j, d) ==
    IF i >= j THEN <<>>
    ELSE (IF d \in DOMAIN collectAt(planLevels, i) THEN collectAt(planLevels, i)[d]
          ELSE <<>>) \o metricsBelow(i + 1, j, d)

\* The result of a first sortedLevels call has exactly one entry per plan
\* level, with the level's freq, in ascending order of freq; the plan keeps
\* its levels and freqs; every domain of a sorted level is a domain of every
\* later sorted level, and a level has no domain that neither it nor a level
\* before it had.
sortedAndInherited ==
    LET lv == slLast.levels
        before == slLast.before
    IN  /\ Len(lv) = Cardinality(DOMAIN before)
        /\ \A name \in DOMAIN before :
              Cardinality({i \in 1..Len(lv) : lv[i].name = name}) = 1
        /\ \A i \in 1..Len(lv) :
              lv[i].name \in DOMAIN before /\ lv[i].freq = before[lv[i].name].freq
        /\ \A i, j \in 1..Len(lv) : i < j => lv[i].freq <= lv[j].freq
        /\ DOMAIN planLevels = DOMAIN before
        /\ \A name \in DOMAIN before : planLevels[name].freq = before[name].freq
        /\ \A i, j \in 1..Len(lv) :
              i < j => DOMAIN collectAt(planLevels, i) \subseteq DOMAIN collectAt(planLevels, j)
        /\ \A j \in 1..Len(lv) :
              DOMAIN collectAt(planLevels, j) =
                  UNION {DOMAIN collectAt(before, i) : i \in 1..j}

\* C21, as stated: sorted and inherited as above, and where sorted levels
\* i < j both configured a domain, level j's metric list is its own list
\* followed by level i's (as configured, or as level i has it afterwards).
SortedLevelsAppendsLevelBelow ==
    slLast.n = 1 =>
        /\ sortedAndInherited
        /\ \A i, j \in 1..Len(slLast.levels) :
              i < j =>
                \A d \in DOMAIN collectAt(slLast.before, i)
                            \cap DOMAIN collectAt(slLast.before, j) :
                    \/ collectAt(planLevels, j)[d] = ownMetrics(j, d) \o ownMetrics(i, d)
                    \/ collectAt(planLevels, j)[d] =
                           ownMetrics(j, d) \o collectAt(planLevels, i)[d]

\* C21, amended: sorted and inherited as above, and the metric list of a
\* domain at sorted level j is the level's own list followed by the lists that
\* every level before it ends up with for the domain, in sorted order (with
\* two levels: its own list followed by the lower level's).
SortedLevelsAppendsAllBelow ==
    slLast.n = 1 =>
        /\ sortedAndInherited
        /\ \A j \in 1..Len(slLast.levels) :
              \A d \in DOMAIN collectAt(planLevels, j) :
                  collectAt(planLevels, j)[d] = ownMetrics(j, d) \o metricsBelow(1, j, d)

\* The plan {fast: 1s, {A}}, {slow: 5s, {B}} has been sorted: the level chosen
\* at s = 5 is slow, which has both A and B.
FastSlowPlanSorted ==
    /\ slLast.n = 1
    /\ slLast.before = ("fast" :> [freq |-> 1, collect |-> ("A" :> <<"x">>)]
                         @@ "slow" :> [freq |-> 5, collect |-> ("B" :> <<"y">>)])
    /\ slLast.levels[selectLevel(slLast.levels, 5)].name = "slow"
    /\ planLevels["slow"].collect = ("A" :> <<"x">>) @@ ("B" :> <<"y">>)
    /\ planLevels["fast"].collect = ("A" :> <<"x">>)

\* C22: a second sortedLevels call, on the plan the first call left, returns
\* the same sorted levels and leaves every level's domains and metric lists as
\* they were after the first call.
SortedLevelsIdempotent ==
    slLast.n = 2 =>
        /\ slLast.levels = slLast.prevLevels
        /\ planLevels = slLast.before

----------------------------------------------------------------------------
\* Properties of Engine.Collect, Engine.Prepare and the sink loop

FailedPrepareKeepsPreviousPlan ==
    (prepLast.called /\ prepLast.err) =>
        /\ atLevel = prepLast.before.atLevel
        /\ enginePlan = prepLast.before.enginePlan
        /\ ready = prepLast.before.ready
        /\ state = prepLast.before.state /\ plan = prepLast.before.plan
        /\ levels = prepLast.before.levels /\ paused = prepLast.before.paused
        /\ ready =>
              \A l \in DOMAIN planCollect(atLevel) :
                  \A d \in planCollect(atLevel)[l] :
                      mcQuery[d][l] = prepLast.before.mcQuery[d][l]

\* C27: a collection that yields a record sends it to the sinks in the order
\* of the sink list, one send per sink, whatever the sends return; at any
\* moment the sends made are those to the sinks before the loop's position.
\* A collection without a record sends nothing.
RecordSentToEverySinkInOrder ==
    /\ \A j \in 1..Len(ctask.sends) :
          ctask.sends[j].sink = Sinks[j] /\ ctask.sends[j].n = ctask.n
    /\ ctask.pc = "send" => (ctask.bm # <<>> /\ Len(ctask.sends) = ctask.i - 1)
    /\ (ctask.pc = "done" /\ ctask.bm # <<>>) => Len(ctask.sends) = Len(Sinks)
    /\ ctask.bm = <<>> => ctask.sends = <<>>

\* The first sink returned an error and the second sink got the record.
SecondSinkSentAfterFirstFailed ==
    /\ ctask.pc = "done"
    /\ Len(ctask.sends) = 2
    /\ ctask.sends[1].err /\ ~ctask.sends[2].err
    /\ ctask.sends[2].sink = "signalfx"

----------------------------------------------------------------------------
\* Properties of panics and of blocked ticks in lpc.Run

\* C25: a panic in a collection task stays in the task: every task that has
\* panicked is in its deferred function, where it returns its slot and
\* records LPC_PANIC; none has been cut short inside Engine.Collect.
PanicContainedInTask ==
    \A r \in BagToSet(tasks) : r.panicked => r.pc \in {"exit", "recover"}

\* C26: a tick that selects a level while no slot is free launches no task
\* and records LPC_BLOCKED as the last collect error; Run goes on to the next
\* tick.  Tasks are launched only by a tick that selects a level and finds a
\* free slot, one per tick: a dropped tick is not made up for.
BlockedTickIsDropped ==
    [][ /\ (s' = s + 1 /\ lastTick'.kind = "select" /\ sem = 0) =>
              /\ tasks' = tasks /\ sem' = sem
              /\ lastCollectError' = "LPC_BLOCKED"
              /\ run' = "ticking"
        /\ BagCardinality(tasks') > BagCardinality(tasks) =>
              /\ sem > 0 /\ sem' = sem - 1
              /\ s' = s + 1 /\ lastTick'.kind = "select"
              /\ BagCardinality(tasks') = BagCardinality(tasks) + 1
      ]_vars

\* Run has dropped a tick and is still ticking: both slots are held, the last
\* collect error is LPC_BLOCKED.
TickDroppedAsBlocked ==
    /\ lastCollectError = "LPC_BLOCKED"
    /\ lastTick.kind = "select" /\ lastTick.s = s
    /\ sem = 0 /\ BagCardinality(tasks) = maxCollectors
    /\ run = "ticking" /\ ~crashed

----------------------------------------------------------------------------
\* Properties of the heartbeat writer

\* C28: until the first INSERT has succeeded the writer executes nothing but
\* that INSERT; the INSERT succeeds at most once and is not executed again
\* afterwards; from then on the writer executes UPDATEs only, each from the
\* one loop of the one goroutine.
UpdatesOnlyAfterUpsert ==
    /\ hbLog.upsertsOk <= 1
    /\ hbLog.updates > 0 => hbLog.upsertsOk = 1
    /\ hbLog.upsertsOk = 0 => hbPc \in {"insert", "initWait", "returned"}
    /\ hbLog.upsertsOk = 1 =>
          hbPc \in {"sleep", "update", "readOnlyWait", "check", "returned"}
    /\ hbPc = "update" => hbLog.upsertsOk = 1
    /\ hbPc = "insert" => hbLog.upsertsOk = 0

\* The first INSERT failed before it succeeded, and UPDATEs have followed.
UpdatesAfterRetriedUpsert ==
    /\ hbLog.upserts >= 2 /\ hbLog.upsertsOk = 1
    /\ hbLog.updates >= 2 /\ hbLog.last = "update"
    /\ hbPc = "sleep"

\* C29: no write is executed once stopChan is closed, and doneChan is closed
\* at most once, when Write has returned.
NoWriteAfterStop ==
    /\ hbLog.afterStop = 0
    /\ hbDone <= 1
    /\ hbPc = "returned" <=> hbDone = 1

\* What Write does on stop: once stopChan is closed it returns after at most
\* two more writes (stop is looked at after a write, not before it) and closes
\* doneChan exactly once, on return.
StopEndsWriter ==
    /\ [](/\ hbLog.afterStop <= 2
          /\ hbDone <= 1
          /\ hbPc = "returned" <=> hbDone = 1)
    /\ hbStop ~> (hbPc = "returned" /\ hbDone = 1)

\* Write has returned on stop after the INSERT and one UPDATE had been
\* executed with stopChan closed.
WriterReturnedAfterTwoWrites ==
    /\ hbStop = TRUE /\ hbPc = "returned" /\ hbDone = 1
    /\ hbLog.afterStop = 2 /\ hbLog.last = "update"

----------------------------------------------------------------------------
\* Properties of the plan Loader

\* The plans of the monitor's own configuration have been stored for it.
hasOwnPlans(m) == monitorPlans[m][1].name # INTERNAL_PLAN_NAME

\* The first plan by precedence: of the monitor's plans if it has any, else
\* of the shared plans, else the internal plan.
firstByPrecedence(m) ==
    IF hasOwnPlans(m)
    THEN IF monitorPlans[m][1].shared
         THEN sharedPlans[lastNamed(sharedPlans, monitorPlans[m][1].name)].plan
         ELSE monitorPlans[m][1].plan
    ELSE IF Len(sharedPlans) > 0 THEN sharedPlans[1].plan
    ELSE "internal"

\* C30: in non-strict mode every call Plan(m, "") for a monitor whose plans
\* have been loaded returns, without error, the first plan by precedence.
PlanReturnsFirstByPrecedence ==
    [][(/\ planLast' # planLast
        /\ planLast'.name = ""
        /\ Len(monitorPlans[planLast'.monitor]) > 0)
       => (/\ planLast'.err = "nil"
           /\ planLast'.plan = firstByPrecedence(planLast'.monitor))]_vars

----------------------------------------------------------------------------
\* Properties of the serialization of plan changes

\* changePlan goroutines that have been started and have not returned; one in
\* its deferred function (positions "unwind" and "close") has not returned.
runningSwaps == {k \in 1..MaxChanges : swaps[k].pc \notin {"none", "done"}}

\* C31: at most one changePlan goroutine exists at any time: ChangePlan starts
\* a goroutine only when the one before it has returned.
AtMostOneSwapRunning == Cardinality(runningSwaps) <= 1

----------------------------------------------------------------------------
\* Properties of the plan held by the plan Loader

\* C32: the plan that the plan Loader holds is not modified by changePlan.
\* Loader.Plan returns pm.plan, a copy of the Plan struct whose Levels map and
\* Collect maps are the Loader's own, so planLevels is the Loader's plan as
\* well as the plan that changePlan hands to sortedLevels.
LoadedPlanNotModified == [][planLevels' = planLevels]_vars

----------------------------------------------------------------------------
\* Properties of the Engine's semaphore

\* Collector goroutines inside mc.Collect, over all calls.
RECURSIVE inCollectUpTo(_)
inCollectUpTo(c) == IF c = 0 THEN 0 ELSE collects[c].inCollect + inCollectUpTo(c - 1)

runningCollectors == inCollectUpTo(maxCollectors)

\* C33: at most semSize collectors are inside mc.Collect at a time, and the
\* free tokens of m.sem plus the collectors inside mc.Collect never exceed
\* semSize.
SemaphoreBoundsCollectors ==
    /\ runningCollectors <= semSize
    /\ engineSem + runningCollectors <= semSize

\* C34: every Engine.Collect call whose collectors all return does return (and
\* with it releases its read lock), and a Prepare waiting for the write lock
\* gets it.
CollectCallReturns ==
    /\ \A c \in CollectCalls : (collects[c].pc # "idle") ~> (collects[c].pc = "idle")
    /\ (prepLock = "waiting") ~> (prepLock = "none")

----------------------------------------------------------------------------
\* Properties of StartMonitors

\* C35: Run has been launched at most once for every loaded Monitor instance,
\* exactly once if it is started.  In every step a loaded monitor is as it
\* was, or is an instance for which Run has not been launched (newly inserted,
\* or refused by the callback: then it is the same instance, still loaded and
\* not started), or is the same instance, loaded and not started before the
\* step, with Run launched by the step.
RunLaunchedOncePerMonitor ==
    /\ [](\A id \in DOMAIN dbmon :
            /\ dbmon[id].runs <= 1
            /\ dbmon[id].started <=> dbmon[id].runs = 1)
    /\ [][\A id \in DOMAIN dbmon' :
            \/ id \in DOMAIN dbmon /\ dbmon'[id] = dbmon[id]
            \/ /\ dbmon'[id].runs = 0 /\ ~dbmon'[id].started
               /\ dbmon'[id].refused =>
                     /\ id \in DOMAIN dbmon
                     /\ dbmon'[id] = [dbmon[id] EXCEPT !.refused = TRUE]
            \/ /\ id \in DOMAIN dbmon
               /\ ~dbmon[id].started /\ dbmon[id].runs = 0
               /\ dbmon'[id] = [dbmon[id] EXCEPT !.started = TRUE, !.runs = 1]]_vars

\* A monitor that the callback refused at one StartMonitors call has been
\* started by a later one, after a reload that kept a started monitor.
RefusedMonitorStartedLater ==
    /\ loadLast.called /\ loadLast.sameStarted
    /\ \E id \in DOMAIN dbmon :
          dbmon[id].refused /\ dbmon[id].started /\ dbmon[id].runs = 1

----------------------------------------------------------------------------
\* Properties of the level a collection task collects

\* C36: a collection task inside Engine.Collect collects the level that was
\* selected on the tick that launched it.
TaskCollectsSelectedLevel ==
    \A r \in BagToSet(tasks) : r.pc = "collecting" => r.level = r.selLevel

----------------------------------------------------------------------------
\* Properties of the success of a plan change

\* C37: a changePlan goroutine leaves its retry loop as successful (break,
\* then CHANGE_PLAN_SUCCESS) only in the step in which Engine.Prepare's commit
\* callback publishes its (state, plan, levels) and resumes; a Prepare attempt
\* that ends on a done context is not a success.
SuccessOnlyAfterPublish ==
    [][ \A k \in 1..MaxChanges :
          ( /\ swaps[k].pc # "unwind" /\ swaps'[k].pc = "unwind"
            /\ swaps'[k].outcome # "canceled" ) =>
          ( /\ swaps[k].pc = "after"
            /\ state' = swaps[k].newState
            /\ plan' = swaps[k].newPlan
            /\ levels' = swaps[k].levels
            /\ paused' = FALSE ) ]_vars

----------------------------------------------------------------------------
\* Properties of the sink errors in Status

\* C38: Status().SinkErrors has an entry for a sink only if the sink's most
\* recent Send returned an error: a sink whose Send in the current collection
\* returned nil has no entry.
SinkErrorOnlyForFailedSend ==
    \A j \in 1..Len(ctask.sends) :
        ctask.sends[j].sink \in StatusSinkErrors => ctask.sends[j].err

----------------------------------------------------------------------------
\* Properties of the adjuster's pending state

\* pending is unset: no state and the zero timestamp.
pendingUnset == pending.state = STATE_NONE /\ pending.ts = 0

\* C39: pending is either unset, or set to a state other than the current
\* one with the plan configured for that state; and as long as first is true,
\* pending is unset and the current state is offline.
PendingIsUnsetOrAhead ==
    /\ \/ pendingUnset
       \/ /\ pending.state \in States /\ pending.ts # 0
          /\ pending.state # curr.state
          /\ pending.plan = lpaStates[pending.state].plan
    /\ first => (pendingUnset /\ curr.state = "offline")

\* A state is pending with its own plan after an earlier pending state, which
\* had another plan, was committed or aborted.
PendingSetAfterEarlierPending ==
    /\ ~first
    /\ lpaLast.event = "STATE_CHANGE_BEGIN"
    /\ pending.ts # 0
    /\ lpaLast.prePending.ts = 0
    /\ lpaLast.prePending.plan # ""
    /\ lpaLast.prePending.plan # pending.plan

----------------------------------------------------------------------------
\* Properties of the plan Loader's lock

\* C40: whatever LoadShared and LoadMonitor calls have been made, with file
\* plans or with table plans, the process runs and the Loader's lock is free
\* between two operations: a later Plan is not blocked.
LoaderLockFreeBetweenOperations == plOut = FALSE

====
